---- MODULE Spec2Model ----
(***************************************************************************)
(* A model of the DDI-CDI JSON-LD generation engine of                     *)
(* src/DDICDI_generator/DDICDI_converter_JSONLD_incremental.py.            *)
(*                                                                         *)
(* One behaviour is one call of generate_complete_json_ld(df, df_meta,     *)
(* spssfile, chunk_size, process_all_rows, max_rows): the initial state    *)
(* holds the arguments, the actions are the steps of the call (the direct  *)
(* path, or the chunk loop, followed by the structural generators and      *)
(* wrap_in_graph), and the final state holds the returned document.        *)
(*                                                                         *)
(* Python values are modelled as records [k, n, s]: k is the Python type   *)
(* ("int", "float", "str", "numstr" for a str that parses as a number,     *)
(* "na" for pandas.NA), n the numeric value (floats are restricted to      *)
(* integral values) and s the text of a str.  A dict is the sequence of    *)
(* its items [key, val] in insertion order.  A node (a Python dict with    *)
(* "@id" and "@type") is a record whose fields are named as in the source  *)
(* without the "@" and "skos:" prefixes.  The dataframe is the sequence of *)
(* its rows (row labels are the default RangeIndex 0..n-1), each row a     *)
(* function from column name to cell.                                      *)
(*                                                                         *)
(* pandas semantics relied on:                                             *)
(*  - a Series of dtype Int64 holds pandas.NA; a comparison with NA is NA, *)
(*    and bool(NA) raises TypeError;                                       *)
(*  - a | b on two boolean Series aligns them on their index labels: the   *)
(*    result is indexed by the sorted union of the labels, and is False at *)
(*    a label only one operand has when the other operand is False there;  *)
(*  - pd.to_numeric(col, errors='ignore') returns the numeric column when  *)
(*    every cell parses and the column unchanged otherwise (pandas 1.x and *)
(*    2.x), or raises because the argument is rejected (pandas 3): the     *)
(*    variable to_numeric_raises holds which of the two the build does.    *)
(***************************************************************************)
EXTENDS Integers, Sequences, FiniteSets, TLC

VARIABLES
    df,                         \* argument: the dataframe
    df_meta,                    \* argument: the metadata object
    chunk_size,                 \* argument
    process_all_rows,           \* argument
    max_rows,                   \* argument
    pc,                         \* position in generate_complete_json_ld
    chunk_idx,                  \* loop variable of the chunk loop
    df_limited,                 \* local: the dataframe the structural part sees
    all_instance_values,        \* local accumulators of the row-level nodes
    all_data_points,
    all_data_point_positions,
    value_mappings,
    json_ld_doc,                \* the document returned
    to_numeric_raises           \* environment: the installed pandas rejects
                                \* errors='ignore' and pd.to_numeric raises

vars == <<df, df_meta, chunk_size, process_all_rows, max_rows, pc, chunk_idx,
          df_limited, all_instance_values, all_data_points,
          all_data_point_positions, value_mappings, json_ld_doc,
          to_numeric_raises>>

-----------------------------------------------------------------------------
(* Bounds of the model *)

\* Longest dataframe of the exhaustively enumerated datasets.
MaxRows == 3
\* chunk_size ranges over 1..MaxChunkSize.
MaxChunkSize == 3

-----------------------------------------------------------------------------
(* Generic helpers *)

Range(s) == {s[i] : i \in DOMAIN s}

RECURSIVE Concat(_)
Concat(ss) == IF ss = <<>> THEN <<>> ELSE Head(ss) \o Concat(Tail(ss))

\* [f(x) for x in s]
Map(f(_), s) == [i \in DOMAIN s |-> f(s[i])]

\* [x for x in s if p(x)]
RECURSIVE Filter(_, _)
Filter(p(_), s) ==
    IF s = <<>> THEN <<>>
    ELSE (IF p(Head(s)) THEN <<Head(s)>> ELSE <<>>) \o Filter(p, Tail(s))

\* x in s, for a Python list s
InList(x, s) == \E i \in DOMAIN s : s[i] = x

Min(a, b) == IF a <= b THEN a ELSE b
Max(a, b) == IF a >= b THEN a ELSE b

\* Python values
PyInt(n)    == [k |-> "int",    n |-> n, s |-> ""]
PyFloat(n)  == [k |-> "float",  n |-> n, s |-> ""]
PyStr(s)    == [k |-> "str",    n |-> 0, s |-> s]
PyNumStr(n) == [k |-> "numstr", n |-> n, s |-> ToString(n)]
PyNA        == [k |-> "na",     n |-> 0, s |-> ""]

\* str(value)
str(v) ==
    CASE v.k = "int"   -> ToString(v.n)
      [] v.k = "float" -> ToString(v.n) \o ".0"
      [] v.k = "na"    -> "<NA>"
      [] OTHER         -> v.s

\* isinstance(value, float) and isinstance(value, (int, float))
IsFloat(v)  == v.k = "float"
IsNumber(v) == v.k \in {"int", "float"}

\* float(value) succeeds (it raises ValueError for a non-numeric str and
\* TypeError for pandas.NA)
FloatOk(v) == v.k \in {"int", "float", "numstr"}

\* dict helpers: a dict is a sequence of items [key |-> ..., val |-> ...]
Keys(d)     == [i \in DOMAIN d |-> d[i].key]
HasKey(d, x) == \E i \in DOMAIN d : d[i].key = x
Get(d, x)   == d[CHOOSE i \in DOMAIN d : d[i].key = x].val
\* d.get(x, default)
GetOr(d, x, default) == IF HasKey(d, x) THEN Get(d, x) ELSE default

\* hasattr(df_meta, 'file_format'): the SPSS/Stata metadata object of
\* pyreadstat has no such attribute, modelled as file_format = "none"
HasFileFormat(meta) == meta.file_format # "none"

-----------------------------------------------------------------------------
(* Dataframe helpers *)

\* A head that keeps every row
head_untruncated(d, n) == d

\* df.head(n) and df.iloc[:n] for n >= 0
head(d, n) == SubSeq(d, 1, Min(Len(d), n))

\* df.iloc[a:b]: rows with labels a..b-1
iloc(d, a, b) == SubSeq(d, a + 1, b)

\* df[variable] as the list of its cells
Column(d, variable) == [i \in DOMAIN d |-> d[i][variable]]

\* The dtype of a column of the caller's dataframe: Int64 (nullable) when it
\* holds pandas.NA, object when it holds a str, int64 otherwise.
DType(d, variable) ==
    IF \E i \in DOMAIN d : d[i][variable].k = "na" THEN "Int64"
    ELSE IF \E i \in DOMAIN d : d[i][variable].k \in {"str", "numstr"} THEN "object"
    ELSE "int64"

-----------------------------------------------------------------------------
(* Row-level node generators *)

-----------------------------------------------------------------------------
\* the number of rows without the clamp to the length of the dataframe
RowsToProcess_unclamped(d, all_rows, limit) == IF all_rows THEN Len(d) ELSE limit

\* The "max_rows" local of the four row-level generators (lines 594-597,
\* 649-652, 684-687, 720-723); their fourth parameter is named chunk_size.
RowsToProcess(d, all_rows, limit) == IF all_rows THEN Len(d) ELSE Min(Len(d), limit)

\* f"#{prefix}-{idx}-{variable}"
RowId(prefix, idx, variable) == "#" \o prefix \o "-" \o ToString(idx) \o "-" \o variable

\* f"#{prefix}-{variable}"
VarId(prefix, variable) == "#" \o prefix \o "-" \o variable

_get_dataset_reference(meta) ==
    IF HasFileFormat(meta) /\ meta.file_format = "netcdf" THEN "#dimensionalDataSet"
    ELSE IF HasFileFormat(meta) /\ meta.file_format = "json" THEN "#keyValueDataStore"
    ELSE "#dimensionalDataSet"

_get_structure_reference(meta) ==
    IF HasFileFormat(meta) /\ meta.file_format = "netcdf" THEN "#dimensionalDataStructure"
    ELSE IF HasFileFormat(meta) /\ meta.file_format = "json" THEN "#keyValueStructure"
    ELSE "#dimensionalDataStructure"

_get_dataset_type(meta) ==
    IF HasFileFormat(meta) /\ meta.file_format = "netcdf" THEN "DimensionalDataSet"
    ELSE IF HasFileFormat(meta) /\ meta.file_format = "json" THEN "KeyValueDataStore"
    ELSE "DimensionalDataSet"

_get_structure_type(meta) ==
    IF HasFileFormat(meta) /\ meta.file_format = "netcdf" THEN "DimensionalDataStructure"
    ELSE IF HasFileFormat(meta) /\ meta.file_format = "json" THEN "KeyValueStructure"
    ELSE "DimensionalDataStructure"

\* ValueMapping with the formats numbered from 1
generate_ValueMapping_from_one(d, meta, all_rows, limit) ==
    LET n == IF all_rows THEN Len(d) ELSE Min(Len(d), limit)
        one(variable) ==
            [id           |-> VarId("valueMapping", variable),
             type         |-> "ValueMapping",
             defaultValue |-> "",
             formats      |-> [i \in 1..n |-> RowId("dataPoint", i, variable)]]
    IN  Map(one, meta.column_names)

generate_ValueMapping(d, meta, all_rows, limit) ==
    LET n == RowsToProcess(d, all_rows, limit)
        one(variable) ==
            [id           |-> VarId("valueMapping", variable),
             type         |-> "ValueMapping",
             defaultValue |-> "",
             formats      |-> IF Len(d) = 0 THEN <<>>
                              ELSE [i \in 1..n |-> RowId("dataPoint", i - 1, variable)]]
    IN  Map(one, meta.column_names)

generate_DataPoint(d, meta, all_rows, limit) ==
    LET n == RowsToProcess(d, all_rows, limit)
        one(variable) ==
            [i \in 1..n |->
                [id            |-> RowId("dataPoint", i - 1, variable),
                 type          |-> "DataPoint",
                 isDescribedBy |-> VarId("instanceVariable", variable),
                 has_DataPoint_OF_DataSet |-> _get_dataset_reference(meta)]]
    IN  Concat(Map(one, meta.column_names))

generate_DataPointPosition(d, meta, all_rows, limit) ==
    LET n == RowsToProcess(d, all_rows, limit)
        one(variable) ==
            [i \in 1..n |->
                [id      |-> RowId("dataPointPosition", i - 1, variable),
                 type    |-> "DataPointPosition",
                 value   |-> i - 1,
                 indexes |-> RowId("dataPoint", i - 1, variable)]]
    IN  Concat(Map(one, meta.column_names))

\* The InstanceValue node of row idx of a variable (lines 819-828, 1239-1250,
\* 1274-1283, 1291-1300)
InstanceValueNode(idx, variable, content, value_domain) ==
    [id         |-> RowId("instanceValue", idx, variable),
     type       |-> "InstanceValue",
     content    |-> [type |-> "TypedString", content |-> content],
     isStoredIn |-> RowId("dataPoint", idx, variable),
     hasValueFrom_ValueDomain |-> value_domain]

SentinelRef(variable)    == VarId("sentinelValueDomain", variable)
SubstantiveRef(variable) == VarId("substantiveValueDomain", variable)

\* [r for r in missing_ranges if isinstance(r['lo'], float)]
NumericRanges(ranges) == Filter(LAMBDA r : IsFloat(r.lo), ranges)

\* The element-by-element test of lines 796-805, 1260-1267 and 1304-1312:
\* some range has lo <= float(value) <= hi; float(value) failing, and the
\* comparison with a non-numeric hi raising TypeError, are "pass".
InMissingRange(value, numeric_ranges) ==
    \E i \in DOMAIN numeric_ranges :
        /\ FloatOk(value)
        /\ numeric_ranges[i].lo.n <= value.n
        /\ IsNumber(numeric_ranges[i].hi)
        /\ value.n <= numeric_ranges[i].hi.n

\* (numeric_values >= lo) & (numeric_values <= hi) raises TypeError when a
\* bound is not a number
ComparisonRaises(numeric_ranges) ==
    \E i \in DOMAIN numeric_ranges : ~IsNumber(numeric_ranges[i].hi)

\* One entry of the vectorized range condition: pandas.NA for a pandas.NA
\* cell, False for a cell pd.to_numeric coerces to NaN
VectorizedInRange(value, numeric_ranges) ==
    \E i \in DOMAIN numeric_ranges :
        /\ FloatOk(value)
        /\ numeric_ranges[i].lo.n <= value.n
        /\ value.n <= numeric_ranges[i].hi.n

ValueDomain(is_missing, variable) ==
    IF is_missing THEN SentinelRef(variable) ELSE SubstantiveRef(variable)

\* generate_InstanceValue, lines 712-834
generate_InstanceValue(d, meta, all_rows, limit) ==
    LET n         == RowsToProcess(d, all_rows, limit)
        df_sample == head(d, n)
        one(variable) ==
            LET has_missing    == HasKey(meta.missing_ranges, variable)
                numeric_ranges == IF has_missing
                                  THEN NumericRanges(Get(meta.missing_ranges, variable))
                                  ELSE <<>>
                col            == Column(df_sample, variable)
                \* lines 773-791 raise: a non-numeric bound, or bool(NA)
                raises         == \/ ComparisonRaises(numeric_ranges)
                                  \/ \E i \in DOMAIN col : col[i].k = "na"
                domain(value)  ==
                    IF has_missing /\ numeric_ranges # <<>>
                    THEN IF raises
                         THEN ValueDomain(InMissingRange(value, numeric_ranges), variable)
                         ELSE ValueDomain(VectorizedInRange(value, numeric_ranges), variable)
                    ELSE SubstantiveRef(variable)
            IN  [i \in 1..Len(df_sample) |->
                    InstanceValueNode(i - 1, variable, str(col[i]), domain(col[i]))]
    IN  Concat(Map(one, meta.column_names))

-----------------------------------------------------------------------------
(* The chunk loop of generate_complete_json_ld, lines 1180-1343 *)

\* total_chunks = (len(df) + chunk_size - 1) // chunk_size
total_chunks(d, size) == (Len(d) + size - 1) \div size

\* Lines 1202-1206: df_chunk[col] = pd.to_numeric(df_chunk[col],
\* errors='ignore') inside try/except.  A pandas that accepts errors='ignore'
\* returns the numeric column when every cell parses and the column as it is
\* otherwise; a pandas that rejects the argument raises, and the except
\* branch keeps the column as it is.  The repository pins no pandas version.
to_numeric_ignore(col) ==
    IF to_numeric_raises THEN col
    ELSE IF \A i \in DOMAIN col : col[i].k \in {"int", "numstr"}
    THEN [i \in DOMAIN col |-> PyInt(col[i].n)]
    ELSE col

\* col_values = df_chunk[variable] after the conversion of the object columns
ChunkColumn(d, variable, chunk_start, chunk_end) ==
    LET raw == Column(iloc(d, chunk_start, chunk_end), variable)
    IN  IF DType(d, variable) = "object" THEN to_numeric_ignore(raw) ELSE raw

\* pd.api.types.is_numeric_dtype(col_values): the column of the dataframe is
\* not object, or the conversion of lines 1202-1206 made the chunk numeric
is_numeric_dtype(d, variable, col_values) ==
    \/ DType(d, variable) # "object"
    \/ /\ ~to_numeric_raises
       /\ \A i \in DOMAIN col_values : col_values[i].k = "int"

\* The except branch, lines 1288-1314: every row of the chunk, element by
\* element
FallbackValues(variable, col_values, chunk_start, has_missing_ranges, missing_ranges) ==
    [i \in DOMAIN col_values |->
        InstanceValueNode(chunk_start + (i - 1), variable, str(col_values[i]),
            ValueDomain(has_missing_ranges
                        /\ InMissingRange(col_values[i], NumericRanges(missing_ranges)),
                        variable))]

\* The else branch of the try, lines 1254-1284
RegularValues(variable, col_values, chunk_start, has_missing_ranges, numeric_ranges) ==
    [i \in DOMAIN col_values |->
        InstanceValueNode(chunk_start + (i - 1), variable, str(col_values[i]),
            ValueDomain(has_missing_ranges
                        /\ InMissingRange(col_values[i], numeric_ranges),
                        variable))]

\* in_missing_range after line 1232, as zip() pairs it with col_values:
\* pd.Series([False] * len(col_values)) has the labels 0..len-1 and
\* range_condition the labels chunk_start.., so that the two are aligned only
\* in the first chunk; in a later chunk the first len entries of the result
\* are those of the labels 0..len-1, all False.  "NA" stands for pandas.NA.
InMissingRangeSeries(col_values, chunk_start, numeric_ranges) ==
    [i \in DOMAIN col_values |->
        IF chunk_start # 0 THEN "False"
        ELSE IF col_values[i].k = "na" THEN "NA"
        ELSE IF VectorizedInRange(col_values[i], numeric_ranges) THEN "True"
        ELSE "False"]

\* The then branch of the try, lines 1227-1251: the nodes appended before the
\* loop ends or bool(NA) raises
VectorizedValues(variable, col_values, chunk_start, numeric_ranges) ==
    LET in_missing_range == InMissingRangeSeries(col_values, chunk_start, numeric_ranges)
        stop == IF \E i \in DOMAIN col_values : in_missing_range[i] = "NA"
                THEN (CHOOSE i \in DOMAIN col_values :
                        /\ in_missing_range[i] = "NA"
                        /\ \A j \in 1..(i - 1) : in_missing_range[j] # "NA") - 1
                ELSE Len(col_values)
    IN  [i \in 1..stop |->
            InstanceValueNode(chunk_start + (i - 1), variable, str(col_values[i]),
                ValueDomain(in_missing_range[i] = "True", variable))]

\* The try raises: a comparison with a non-numeric bound (before any row), or
\* bool(NA) in the loop
VectorizedRaises(col_values, chunk_start, numeric_ranges) ==
    \/ ComparisonRaises(numeric_ranges)
    \/ \E i \in DOMAIN col_values :
          InMissingRangeSeries(col_values, chunk_start, numeric_ranges)[i] = "NA"

\* The body of "for variable in df_meta.column_names", lines 1211-1314
ChunkVariableValues(d, meta, chunk_start, chunk_end, variable) ==
    LET has_missing_ranges == HasKey(meta.missing_ranges, variable)
        missing_ranges     == GetOr(meta.missing_ranges, variable, <<>>)
        numeric_ranges     == NumericRanges(missing_ranges)
        col_values         == ChunkColumn(d, variable, chunk_start, chunk_end)
        fallback           == FallbackValues(variable, col_values, chunk_start,
                                             has_missing_ranges, missing_ranges)
    IN  IF numeric_ranges # <<>> /\ is_numeric_dtype(d, variable, col_values)
        THEN IF ComparisonRaises(numeric_ranges)
             THEN fallback
             ELSE IF VectorizedRaises(col_values, chunk_start, numeric_ranges)
             THEN VectorizedValues(variable, col_values, chunk_start, numeric_ranges)
                    \o fallback
             ELSE VectorizedValues(variable, col_values, chunk_start, numeric_ranges)
        ELSE RegularValues(variable, col_values, chunk_start,
                           has_missing_ranges, numeric_ranges)

\* chunk_instance_values of one iteration of the chunk loop
ChunkInstanceValues(d, meta, idx, size) ==
    LET chunk_start == idx * size
        chunk_end   == Min(chunk_start + size, Len(d))
    IN  Concat(Map(LAMBDA variable :
                      ChunkVariableValues(d, meta, chunk_start, chunk_end, variable),
                   meta.column_names))

-----------------------------------------------------------------------------
(* Python string and comparison helpers used by the structural generators *)

UpperCase == "ABCDEFGHIJKLMNOPQRSTUVWXYZ"
LowerCase == "abcdefghijklmnopqrstuvwxyz"
\* The printable ASCII characters (code points 32..126), in code point order
\* (the grave accent is sliced from a literal that pairs it with an
\* apostrophe, the only form in which the parser reads it inside a string)
GraveAndApostrophe == "`'"
Grave == SubSeq(GraveAndApostrophe, 1, 1)
CodePoints ==
    " !\"#$%&'()*+,-./0123456789:;<=>?@ABCDEFGHIJKLMNOPQRSTUVWXYZ[\\]^_"
        \o Grave \o "abcdefghijklmnopqrstuvwxyz{|}~"

CharAt(s, i) == SubSeq(s, i, i)

\* the position of a character in a string of distinct characters, 0 if absent
IndexIn(c, alphabet) ==
    IF \E i \in 1..Len(alphabet) : CharAt(alphabet, i) = c
    THEN CHOOSE i \in 1..Len(alphabet) : CharAt(alphabet, i) = c
    ELSE 0

\* s.lower()
RECURSIVE lower(_)
lower(s) ==
    IF Len(s) = 0 THEN ""
    ELSE LET c == CharAt(s, 1)
             i == IndexIn(c, UpperCase)
         IN  (IF i = 0 THEN c ELSE CharAt(LowerCase, i)) \o lower(SubSeq(s, 2, Len(s)))

\* t in s, for two str
Contains(s, t) ==
    \E i \in 1..(Len(s) - Len(t) + 1) : SubSeq(s, i, i + Len(t) - 1) = t

\* s.startswith(t)
StartsWith(s, t) == Len(s) >= Len(t) /\ SubSeq(s, 1, Len(t)) = t

\* s < t for two str (lexicographic by code point)
RECURSIVE StrLess(_, _)
StrLess(s, t) ==
    IF Len(t) = 0 THEN FALSE
    ELSE IF Len(s) = 0 THEN TRUE
    ELSE LET a == IndexIn(CharAt(s, 1), CodePoints)
             b == IndexIn(CharAt(t, 1), CodePoints)
         IN  IF a # b THEN a < b
             ELSE StrLess(SubSeq(s, 2, Len(s)), SubSeq(t, 2, Len(t)))

IsStr(v) == v.k \in {"str", "numstr"}

Digits == "0123456789"

\* s.isnumeric(): s is not empty and all its characters are digits; a sign
\* or a decimal point makes it False
isnumeric(s) ==
    Len(s) > 0 /\ \A i \in 1..Len(s) : IndexIn(CharAt(s, i), Digits) # 0

\* isinstance(x, (int, float)) or (isinstance(x, str) and x.isnumeric()),
\* lines 554-559
is_numeric(x) == IsNumber(x) \/ (IsStr(x) /\ isnumeric(x.s))

\* a == b for two Python values (1 == 1.0, "1" != 1)
PyEq(a, b) ==
    \/ IsNumber(a) /\ IsNumber(b) /\ a.n = b.n
    \/ IsStr(a) /\ IsStr(b) /\ a.s = b.s

\* a <= b is defined (it raises TypeError between a str and a number)
PyComparable(a, b) ==
    \/ IsNumber(a) /\ IsNumber(b)
    \/ IsStr(a) /\ IsStr(b)

\* a <= b, for comparable values
PyLe(a, b) ==
    IF IsNumber(a) THEN a.n <= b.n ELSE (a.s = b.s \/ StrLess(a.s, b.s))

\* min(values) and max(values) of a non-empty list of pairwise comparable values
PyMin(values) ==
    values[CHOOSE i \in DOMAIN values :
              /\ \A j \in DOMAIN values : PyLe(values[i], values[j])
              /\ \A j \in 1..(i - 1) : ~PyLe(values[j], values[i])]
PyMax(values) ==
    values[CHOOSE i \in DOMAIN values :
              /\ \A j \in DOMAIN values : PyLe(values[j], values[i])
              /\ \A j \in 1..(i - 1) : ~PyLe(values[i], values[j])]

\* min()/max() raise TypeError on a list that mixes str and numbers
AllComparable(values) ==
    \A i, j \in DOMAIN values : PyComparable(values[i], values[j])

\* The body of repr(s) for a str: a backslash and the quote in use are
\* written with a backslash before them
RECURSIVE Escaped(_, _)
Escaped(s, quote) ==
    IF Len(s) = 0 THEN ""
    ELSE LET c == CharAt(s, 1)
         IN  (IF c = "\\" \/ c = quote THEN "\\" \o c ELSE c)
                \o Escaped(SubSeq(s, 2, Len(s)), quote)

\* repr(value) inside str(list): a str is written between apostrophes, or
\* between double quotes when it holds an apostrophe and no double quote
repr(v) ==
    IF IsStr(v)
    THEN IF Contains(v.s, "'") /\ ~Contains(v.s, "\"")
         THEN "\"" \o Escaped(v.s, "\"") \o "\""
         ELSE "'" \o Escaped(v.s, "'") \o "'"
    ELSE str(v)

\* ", ".join(parts)
RECURSIVE Join(_)
Join(parts) ==
    IF parts = <<>> THEN ""
    ELSE IF Len(parts) = 1 THEN parts[1]
    ELSE parts[1] \o ", " \o Join(Tail(parts))

\* str(values) for a list of range dicts or of plain values
StrOfRanges(values) ==
    "[" \o Join([i \in DOMAIN values |->
                    "{'lo': " \o repr(values[i].lo) \o ", 'hi': " \o repr(values[i].hi) \o "}"])
        \o "]"
StrOfValues(values) == "[" \o Join([i \in DOMAIN values |-> repr(values[i])]) \o "]"

\* A missing_ranges entry is a list of dicts {lo, hi}; a missing_user_values
\* entry is a list of plain values.  isinstance(item, dict):
IsRangeDict(item) == "lo" \in DOMAIN item

-----------------------------------------------------------------------------
(* Structural node generators *)

\* Variants that recognise no JSON and no NetCDF input
json_unrecognised(meta)   == FALSE
netcdf_unrecognised(meta) == FALSE

is_json_file(meta) == HasFileFormat(meta) /\ meta.file_format = "json"
is_netcdf(meta)    == HasFileFormat(meta) /\ meta.file_format = "netcdf"

\* hasattr(df_meta, 'x_vars') and df_meta.x_vars and variable in df_meta.x_vars
HasRole(role_vars, variable) == role_vars # <<>> /\ InList(variable, role_vars)

generate_PhysicalDataset(meta, spssfile) ==
    << [id                 |-> "#physicalDataSet",
        type               |-> "PhysicalDataSet",
        allowsDuplicates   |-> FALSE,
        physicalFileName   |-> spssfile,
        correspondsTo_DataSet |-> _get_dataset_reference(meta),
        formats            |-> "#dataStore",
        has_PhysicalRecordSegment |-> <<"#physicalRecordSegment">>] >>

generate_PhysicalRecordSegment(meta, d) ==
    << [id      |-> "#physicalRecordSegment",
        type    |-> "PhysicalRecordSegment",
        mapsTo  |-> "#logicalRecord",
        has_PhysicalSegmentLayout |-> "#physicalSegmentLayout",
        has_DataPointPosition |->
            Concat(Map(LAMBDA variable :
                          [i \in 1..Len(d) |-> RowId("dataPointPosition", i - 1, variable)],
                       meta.column_names))] >>

\* col.startswith('key-') and col.split('-')[1].isdigit(), line 125
IsDigits(t) == Len(t) > 0 /\ \A i \in 1..Len(t) : Contains("0123456789", CharAt(t, i))
IsKeyColumn(col) ==
    /\ StartsWith(col, "key-")
    /\ LET rest == SubSeq(col, 5, Len(col))
           stop == IF Contains(rest, "-")
                   THEN (CHOOSE i \in 1..Len(rest) :
                            /\ CharAt(rest, i) = "-"
                            /\ \A j \in 1..(i - 1) : CharAt(rest, j) # "-") - 1
                   ELSE Len(rest)
       IN  IsDigits(SubSeq(rest, 1, stop))

generate_PhysicalSegmentLayout(meta) ==
    LET csv  == HasFileFormat(meta) /\ meta.file_format = "csv"
        keys == is_json_file(meta)
                /\ (\E i \in DOMAIN meta.column_names : IsKeyColumn(meta.column_names[i]))
                /\ InList("value", meta.column_names)
    IN  << [id               |-> "#physicalSegmentLayout",
            type             |-> "PhysicalSegmentLayout",
            allowsDuplicates |-> FALSE,
            formats          |-> "#logicalRecord",
            isDelimited      |-> IF csv THEN "true" ELSE IF keys THEN "True" ELSE "False",
            isFixedWidth     |-> FALSE,
            delimiter        |-> IF csv THEN meta.delimiter ELSE IF keys THEN "/" ELSE "",
            has_ValueMappingPosition |->
                Map(LAMBDA variable : VarId("valueMappingPosition", variable),
                    meta.column_names)] >>

generate_DataStore(meta) ==
    << [id               |-> "#dataStore",
        type             |-> "DataStore",
        allowsDuplicates |-> FALSE,
        recordCount      |-> meta.number_rows,
        has_LogicalRecord |-> <<"#logicalRecord">>] >>

generate_LogicalRecord(meta) ==
    << [id        |-> "#logicalRecord",
        type      |-> "LogicalRecord",
        organizes |-> _get_dataset_reference(meta),
        has_InstanceVariable |->
            Map(LAMBDA variable : VarId("instanceVariable", variable), meta.column_names)] >>

generate_DimensionalDataSet(meta) ==
    << [id             |-> _get_dataset_reference(meta),
        type           |-> _get_dataset_type(meta),
        isStructuredBy |-> _get_structure_reference(meta)] >>

\* "If no roles are assigned, default to measure": lines 236-238, 257-259
NoRoleAssigned(meta, variable) ==
    /\ ~InList(variable, meta.identifier_vars)
    /\ ~InList(variable, meta.attribute_vars)
    /\ ~InList(variable, meta.measure_vars)

\* The references lines 205-239 append for one variable
StructureComponentsOf(meta, variable) ==
    LET identifier_prefix == IF is_netcdf(meta) THEN "dimensionComponent" ELSE "identifierComponent"
        measure_prefix    == IF is_netcdf(meta) THEN "qualifiedMeasure" ELSE "measureComponent"
    IN  (IF HasRole(meta.identifier_vars, variable)
         THEN <<VarId(identifier_prefix, variable)>> ELSE <<>>)
        \o (IF HasRole(meta.attribute_vars, variable)
            THEN <<VarId("attributeComponent", variable)>> ELSE <<>>)
        \o (IF is_json_file(meta)
            THEN (IF HasRole(meta.contextual_vars, variable)
                  THEN <<VarId("contextualComponent", variable)>> ELSE <<>>)
                 \o (IF HasRole(meta.synthetic_id_vars, variable)
                     THEN <<VarId("syntheticIdComponent", variable)>> ELSE <<>>)
                 \o (IF HasRole(meta.variable_value_vars, variable)
                     THEN <<VarId("variableValueComponent", variable),
                            VarId("variableDescriptorComponent", variable)>>
                     ELSE <<>>)
            ELSE IF HasRole(meta.measure_vars, variable)
                 THEN <<VarId(measure_prefix, variable)>>
                 ELSE IF NoRoleAssigned(meta, variable)
                 THEN <<VarId(measure_prefix, variable)>>
                 ELSE <<>>)

\* component_count with one position for a variable value variable
ComponentCountOf_single(meta, variable) ==
    (IF HasRole(meta.identifier_vars, variable) THEN 1 ELSE 0)
    + (IF HasRole(meta.attribute_vars, variable) THEN 1 ELSE 0)
    + (IF ~is_json_file(meta)
       THEN (IF HasRole(meta.measure_vars, variable) THEN 1
             ELSE IF NoRoleAssigned(meta, variable) THEN 1 ELSE 0)
       ELSE (IF HasRole(meta.contextual_vars, variable) THEN 1 ELSE 0)
            + (IF HasRole(meta.synthetic_id_vars, variable) THEN 1 ELSE 0)
            + (IF HasRole(meta.variable_value_vars, variable) THEN 1 ELSE 0))

\* component_count of one variable, lines 245-267
ComponentCountOf(meta, variable) ==
    (IF HasRole(meta.identifier_vars, variable) THEN 1 ELSE 0)
    + (IF HasRole(meta.attribute_vars, variable) THEN 1 ELSE 0)
    + (IF ~is_json_file(meta)
       THEN (IF HasRole(meta.measure_vars, variable) THEN 1
             ELSE IF NoRoleAssigned(meta, variable) THEN 1 ELSE 0)
       ELSE (IF HasRole(meta.contextual_vars, variable) THEN 1 ELSE 0)
            + (IF HasRole(meta.synthetic_id_vars, variable) THEN 1 ELSE 0)
            + (IF HasRole(meta.variable_value_vars, variable) THEN 2 ELSE 0))

RECURSIVE SumOf(_)
SumOf(ns) == IF ns = <<>> THEN 0 ELSE Head(ns) + SumOf(Tail(ns))

generate_DimensionalDataStructure(meta) ==
    LET position_count ==
            SumOf(Map(LAMBDA variable : ComponentCountOf(meta, variable), meta.column_names))
        elements ==
            [id   |-> _get_structure_reference(meta),
             type |-> _get_structure_type(meta),
             has_DataStructureComponent |->
                Concat(Map(LAMBDA variable : StructureComponentsOf(meta, variable),
                           meta.column_names)),
             has_ComponentPosition |->
                [i \in 1..position_count |-> "#componentPosition-" \o ToString(i - 1)]]
    IN  << IF meta.identifier_vars # <<>> /\ ~is_json_file(meta)
           THEN elements @@ [has_PrimaryKey |-> "#primaryKey"]
           ELSE elements >>

\* A component node defined by an InstanceVariable or a RepresentedVariable
ComponentNode(prefix, type, definedBy, variable) ==
    [id   |-> VarId(prefix, variable),
     type |-> type]
    @@ (IF definedBy = "InstanceVariable"
        THEN [isDefinedBy_InstanceVariable |-> VarId("instanceVariable", variable)]
        ELSE [isDefinedBy_RepresentedVariable |-> VarId("instanceVariable", variable)])

\* [node(v) for v in role_vars if v in df_meta.column_names]
ForRoleVars(node(_), role_vars, meta) ==
    Map(node, Filter(LAMBDA variable : InList(variable, meta.column_names), role_vars))

generate_MeasureComponent(meta) ==
    LET component_type      == IF is_netcdf(meta) THEN "QualifiedMeasure" ELSE "MeasureComponent"
        component_id_prefix == IF is_netcdf(meta) THEN "qualifiedMeasure" ELSE "measureComponent"
        node(variable) == ComponentNode(component_id_prefix, component_type,
                                        "InstanceVariable", variable)
    IN  IF is_json_file(meta) THEN <<>>
        ELSE IF meta.measure_vars # <<>>
        THEN ForRoleVars(node, meta.measure_vars, meta)
        ELSE Map(node, Filter(LAMBDA variable :
                                 /\ ~InList(variable, meta.identifier_vars)
                                 /\ ~InList(variable, meta.attribute_vars),
                              meta.column_names))

generate_IdentifierComponent(meta) ==
    LET component_type      == IF is_netcdf(meta) THEN "DimensionComponent" ELSE "IdentifierComponent"
        component_id_prefix == IF is_netcdf(meta) THEN "dimensionComponent" ELSE "identifierComponent"
    IN  ForRoleVars(LAMBDA variable : ComponentNode(component_id_prefix, component_type,
                                                    "InstanceVariable", variable),
                    meta.identifier_vars, meta)

generate_AttributeComponent(meta) ==
    ForRoleVars(LAMBDA variable : ComponentNode("attributeComponent", "AttributeComponent",
                                                "RepresentedVariable", variable),
                meta.attribute_vars, meta)

generate_ContextualComponent(meta) ==
    IF is_json_file(meta)
    THEN ForRoleVars(LAMBDA variable : ComponentNode("contextualComponent", "ContextualComponent",
                                                     "RepresentedVariable", variable),
                     meta.contextual_vars, meta)
    ELSE <<>>

generate_SyntheticIdComponent(meta) ==
    IF is_json_file(meta)
    THEN ForRoleVars(LAMBDA variable : ComponentNode("syntheticIdComponent", "SyntheticIdComponent",
                                                     "RepresentedVariable", variable),
                     meta.synthetic_id_vars, meta)
    ELSE <<>>

generate_VariableValueComponent(meta) ==
    IF is_json_file(meta)
    THEN ForRoleVars(LAMBDA variable : ComponentNode("variableValueComponent", "VariableValueComponent",
                                                     "RepresentedVariable", variable),
                     meta.variable_value_vars, meta)
    ELSE <<>>

generate_VariableDescriptorComponent(meta) ==
    IF is_json_file(meta)
    THEN ForRoleVars(LAMBDA variable :
                        ComponentNode("variableDescriptorComponent", "VariableDescriptorComponent",
                                      "RepresentedVariable", variable)
                        @@ [refersTo |-> VarId("variableValueComponent", variable)],
                     meta.variable_value_vars, meta)
    ELSE <<>>

\* component_references of one variable, lines 424-448
PositionComponentsOf(meta, variable) ==
    (IF HasRole(meta.identifier_vars, variable)
     THEN <<VarId("identifierComponent", variable)>> ELSE <<>>)
    \o (IF HasRole(meta.attribute_vars, variable)
        THEN <<VarId("attributeComponent", variable)>> ELSE <<>>)
    \o (IF ~is_json_file(meta)
        THEN (IF HasRole(meta.measure_vars, variable)
              THEN <<VarId("measureComponent", variable)>> ELSE <<>>)
        ELSE (IF HasRole(meta.contextual_vars, variable)
              THEN <<VarId("contextualComponent", variable)>> ELSE <<>>)
             \o (IF HasRole(meta.synthetic_id_vars, variable)
                 THEN <<VarId("syntheticIdComponent", variable)>> ELSE <<>>)
             \o (IF HasRole(meta.variable_value_vars, variable)
                 THEN <<VarId("variableValueComponent", variable),
                        VarId("variableDescriptorComponent", variable)>>
                 ELSE <<>>))

generate_ComponentPosition(meta) ==
    LET component_references ==
            Concat(Map(LAMBDA variable : PositionComponentsOf(meta, variable),
                       meta.column_names))
    IN  [i \in DOMAIN component_references |->
            [id      |-> "#componentPosition-" \o ToString(i - 1),
             type    |-> "ComponentPosition",
             value   |-> i - 1,
             indexes |-> component_references[i]]]

generate_PrimaryKey(meta) ==
    IF meta.identifier_vars # <<>>
    THEN << [id   |-> "#primaryKey",
             type |-> "PrimaryKey",
             isComposedOf |->
                ForRoleVars(LAMBDA var : VarId("primaryKeyComponent", var),
                            meta.identifier_vars, meta)] >>
    ELSE <<>>

\* PrimaryKeyComponent nodes without the test "variable in df_meta.column_names"
generate_PrimaryKeyComponent_unchecked(meta) ==
    Map(LAMBDA variable :
           [id   |-> VarId("primaryKeyComponent", variable),
            type |-> "PrimaryKeyComponent",
            correspondsTo_DataStructureComponent |->
                VarId("identifierComponent", variable)],
        meta.identifier_vars)

generate_PrimaryKeyComponent(meta) ==
    ForRoleVars(LAMBDA variable :
                   [id   |-> VarId("primaryKeyComponent", variable),
                    type |-> "PrimaryKeyComponent",
                    correspondsTo_DataStructureComponent |->
                        VarId("identifierComponent", variable)],
                meta.identifier_vars, meta)

\* relevant_variables of lines 537, 943, 986, 1069, 1092
relevant_variables(meta) ==
    IF Len(meta.missing_ranges) > 0 THEN meta.missing_ranges ELSE meta.missing_user_values

generate_InstanceVariable(meta) ==
    LET node(variable) ==
            LET label     == GetOr(meta.column_labels, variable, variable)
                data_type == GetOr(meta.original_variable_types, variable, "string")
                elements  ==
                    [id   |-> VarId("instanceVariable", variable),
                     type |-> "InstanceVariable",
                     physicalDataType |-> [type |-> "ControlledVocabularyEntry",
                                           entryValue |-> data_type],
                     displayLabel |-> [type |-> "LabelForDisplay",
                                       locationVariant |->
                                          [type |-> "ControlledVocabularyEntry",
                                           entryValue |-> label]],
                     name |-> [type |-> "ObjectName", name |-> variable],
                     has_PhysicalSegmentLayout |-> "#physicalSegmentLayout",
                     has_ValueMapping |-> VarId("valueMapping", variable),
                     takesSubstantiveValuesFrom_SubstantiveValueDomain |->
                        VarId("substantiveValueDomain", variable)]
            IN  IF \/ HasKey(meta.missing_ranges, variable)
                   \/ (Len(meta.missing_ranges) = 0 /\ HasKey(meta.missing_user_values, variable))
                THEN elements @@ [takesSentinelValuesFrom |-> SentinelRef(variable)]
                ELSE elements
    IN  Map(node, meta.column_names)

generate_ValueMappingPosition(meta) ==
    [idx \in DOMAIN meta.column_names |->
        [id      |-> VarId("valueMappingPosition", meta.column_names[idx]),
         type    |-> "ValueMappingPosition",
         value   |-> idx - 1,
         indexes |-> VarId("valueMapping", meta.column_names[idx])]]

XsdBase == "https://www.w3.org/TR/xmlschema-2/#"

\* type_mapping, lines 841-893 (the fragment of each URI)
type_mapping ==
    << [key |-> "int8", val |-> "byte"], [key |-> "int16", val |-> "short"],
       [key |-> "int32", val |-> "int"], [key |-> "int64", val |-> "long"],
       [key |-> "int", val |-> "int"], [key |-> "integer", val |-> "integer"],
       [key |-> "uint8", val |-> "unsignedByte"], [key |-> "uint16", val |-> "unsignedShort"],
       [key |-> "uint32", val |-> "unsignedInt"], [key |-> "uint64", val |-> "unsignedLong"],
       [key |-> "float", val |-> "float"], [key |-> "float32", val |-> "float"],
       [key |-> "float64", val |-> "double"], [key |-> "double", val |-> "double"],
       [key |-> "decimal", val |-> "decimal"], [key |-> "numeric", val |-> "decimal"],
       [key |-> "number", val |-> "decimal"], [key |-> "complex", val |-> "string"],
       [key |-> "string", val |-> "string"], [key |-> "str", val |-> "string"],
       [key |-> "object", val |-> "string"], [key |-> "text", val |-> "string"],
       [key |-> "varchar", val |-> "string"], [key |-> "character", val |-> "string"],
       [key |-> "char", val |-> "string"],
       [key |-> "datetime", val |-> "dateTime"], [key |-> "datetime64", val |-> "dateTime"],
       [key |-> "datetime64[ns]", val |-> "dateTime"], [key |-> "timestamp", val |-> "dateTime"],
       [key |-> "date", val |-> "date"], [key |-> "time", val |-> "time"],
       [key |-> "timedelta", val |-> "duration"], [key |-> "duration", val |-> "duration"],
       [key |-> "bool", val |-> "boolean"], [key |-> "boolean", val |-> "boolean"],
       [key |-> "category", val |-> "string"], [key |-> "factor", val |-> "string"],
       [key |-> "array", val |-> "string"], [key |-> "list", val |-> "string"],
       [key |-> "unknown", val |-> "string"] >>

map_to_xsd_type(original_type) ==
    LET type_str == lower(original_type)
    IN  IF Contains(type_str, "int") THEN XsdBase \o "int"
        ELSE IF Contains(type_str, "float") THEN XsdBase \o "double"
        ELSE IF Contains(type_str, "date") THEN XsdBase \o "dateTime"
        ELSE IF Contains(type_str, "bool") THEN XsdBase \o "boolean"
        ELSE XsdBase \o GetOr(type_mapping, type_str, "string")

\* df_meta.readstat_variable_types[variable] raises KeyError
SubstantiveValueDomainRaises(meta) ==
    \E i \in DOMAIN meta.column_names :
        ~HasKey(meta.readstat_variable_types, meta.column_names[i])

generate_SubstantiveValueDomain(meta) ==
    LET node(variable) ==
            LET elements ==
                    [id   |-> VarId("substantiveValueDomain", variable),
                     type |-> "SubstantiveValueDomain",
                     recommendedDataType |->
                        [type |-> "ControlledVocabularyEntry",
                         entryValue |-> map_to_xsd_type(Get(meta.readstat_variable_types, variable))],
                     isDescribedBy |-> VarId("substantiveValueAndConceptDescription", variable)]
            IN  IF HasKey(meta.variable_value_labels, variable)
                THEN elements @@ [takesValuesFrom |->
                                    VarId("substantiveEnumerationDomain", variable)]
                ELSE elements
    IN  Map(node, meta.column_names)

get_classification_level(variable_type) ==
    IF variable_type \in {"continuous", "scale", "ordinal", "ratio"} THEN "Interval"
    ELSE IF variable_type \in {"nominal", "nominal/ordinal"} THEN "Nominal"
    ELSE "Nominal"

\* class_level of line 945
class_level ==
    << [key |-> "nominal", val |-> "Nominal"], [key |-> "scale", val |-> "Continuous"],
       [key |-> "ordinal", val |-> "Ordinal"], [key |-> "unknown", val |-> "Nominal"] >>

\* The lo and the hi values of a list of range dicts
LoValues(values) == [i \in DOMAIN values |-> values[i].lo]
HiValues(values) == [i \in DOMAIN values |-> values[i].hi]

\* generate_ValueAndConceptDescription raises: KeyError of
\* class_level[df_meta.variable_measure[variable]], IndexError of values[0],
\* TypeError of min()/max()
ValueAndConceptDescriptionRaises(meta) ==
    \/ \E i \in DOMAIN meta.column_names :
          \/ ~HasKey(meta.variable_measure, meta.column_names[i])
          \/ ~HasKey(class_level, Get(meta.variable_measure, meta.column_names[i]))
    \/ \E i \in DOMAIN relevant_variables(meta) :
          LET values == relevant_variables(meta)[i].val
          IN  \/ values = <<>>
              \/ IF IsRangeDict(values[1])
                 THEN ~AllComparable(LoValues(values)) \/ ~AllComparable(HiValues(values))
                 ELSE ~AllComparable(values)

generate_ValueAndConceptDescription(meta) ==
    LET substantive(variable) ==
            [id   |-> VarId("substantiveValueAndConceptDescription", variable),
             type |-> "ValueAndConceptDescription",
             classificationLevel |-> Get(class_level, Get(meta.variable_measure, variable))]
        sentinel(item) ==
            LET values  == item.val
                ranges  == IsRangeDict(values[1])
                min_val == IF ranges THEN PyMin(LoValues(values)) ELSE PyMin(values)
                max_val == IF ranges THEN PyMax(HiValues(values)) ELSE PyMax(values)
            IN  [id   |-> VarId("sentinelValueAndConceptDescription", item.key),
                 type |-> "ValueAndConceptDescription",
                 description |->
                    [type |-> "InternationalString",
                     languageSpecificString |->
                        [type |-> "LanguageString",
                         content |-> IF ranges THEN StrOfRanges(values)
                                     ELSE StrOfValues(values)]],
                 maximumValueExclusive |-> str(max_val),
                 minimumValueExclusive |-> str(min_val)]
    IN  Map(substantive, meta.column_names) \o Map(sentinel, relevant_variables(meta))

ConceptId(variable_name, value) == "#" \o variable_name \o "-concept-" \o str(value)

\* range(int(float(lo)), int(float(hi)) + 1) as a set of int
IntRange(lo, hi) == {PyInt(i) : i \in lo.n .. hi.n}

\* lines 575-579 and 1050-1054: the label keys that are not excluded
TopConcepts(variable_name, keys, excluded_values) ==
    LET excluded_values_str == {str(x) : x \in excluded_values}
        kept(value) == /\ ~(\E x \in excluded_values : PyEq(value, x))
                       /\ str(value) \notin excluded_values_str
    IN  Map(LAMBDA value : ConceptId(variable_name, value), Filter(kept, keys))

\* excluded_values of generate_SubstantiveConceptScheme, lines 545-571
SchemeExcludedValues(meta, variable_name) ==
    LET relevant == relevant_variables(meta)
    IN  IF ~HasKey(relevant, variable_name) THEN {}
        ELSE LET values == Get(relevant, variable_name)
                 of(item) ==
                    IF is_numeric(item.lo) /\ is_numeric(item.hi)
                    THEN IntRange(item.lo, item.hi)
                    ELSE IF IsStr(item.lo) THEN {item.lo}
                    ELSE {}
             IN  IF \A i \in DOMAIN values : IsRangeDict(values[i])
                 THEN UNION {of(values[i]) : i \in DOMAIN values}
                 ELSE {PyStr(str(values[i])) : i \in DOMAIN values}

generate_SubstantiveConceptScheme(meta) ==
    LET scheme(item) ==
            [id   |-> VarId("substantiveConceptScheme", item.key),
             type |-> "skos:ConceptScheme",
             hasTopConcept |-> TopConcepts(item.key, Keys(item.val),
                                           SchemeExcludedValues(meta, item.key))]
    IN  Filter(LAMBDA node : node.hasTopConcept # <<>>,
               Map(scheme, meta.variable_value_labels))

\* excluded_values of generate_SubstantiveEnumerationDomain, lines 1037-1046
DomainExcludedValues(meta, variable) ==
    IF ~HasKey(meta.missing_ranges, variable) THEN {}
    ELSE LET values == Get(meta.missing_ranges, variable)
             of(item) ==
                IF IsFloat(item.lo) /\ IsFloat(item.hi) THEN IntRange(item.lo, item.hi)
                ELSE IF IsStr(item.lo) THEN {item.lo}
                ELSE {}
         IN  UNION {of(values[i]) : i \in DOMAIN values}

generate_SubstantiveEnumerationDomain(meta) ==
    LET labelled == Filter(LAMBDA variable :
                              /\ HasKey(meta.variable_value_labels, variable)
                              /\ TopConcepts(variable,
                                             Keys(Get(meta.variable_value_labels, variable)),
                                             DomainExcludedValues(meta, variable)) # <<>>,
                           meta.column_names)
    IN  Map(LAMBDA variable :
               [id     |-> VarId("substantiveEnumerationDomain", variable),
                type   |-> "EnumerationDomain",
                sameAs |-> VarId("substantiveConceptScheme", variable)],
            labelled)

\* The relevant variables that have value labels
LabelledRelevant(meta) ==
    Filter(LAMBDA item : HasKey(meta.variable_value_labels, item.key),
           relevant_variables(meta))

\* generate_SentinelConceptScheme raises: IndexError of values[0], TypeError
\* of lo <= value <= hi between a str and a number
SentinelConceptSchemeRaises(meta) ==
    \E i \in DOMAIN LabelledRelevant(meta) :
        LET values == LabelledRelevant(meta)[i].val
            keys   == Keys(Get(meta.variable_value_labels, LabelledRelevant(meta)[i].key))
        IN  \/ values = <<>>
            \/ /\ IsRangeDict(values[1])
               /\ \E a \in DOMAIN keys, b \in DOMAIN values :
                     \/ ~PyComparable(values[b].lo, keys[a])
                     \/ PyLe(values[b].lo, keys[a]) /\ ~PyComparable(keys[a], values[b].hi)

generate_SentinelConceptScheme(meta) ==
    LET scheme(item) ==
            LET values == item.val
                labels == Get(meta.variable_value_labels, item.key)
                keys   == Keys(labels)
                inRanges(value) ==
                    Filter(LAMBDA r : PyLe(r.lo, value) /\ PyLe(value, r.hi), values)
            IN  [id   |-> VarId("sentinelConceptScheme", item.key),
                 type |-> "skos:ConceptScheme",
                 hasTopConcept |->
                    IF IsRangeDict(values[1])
                    THEN Concat(Map(LAMBDA value :
                                       Map(LAMBDA r : ConceptId(item.key, value),
                                           inRanges(value)),
                                    keys))
                    ELSE Map(LAMBDA value : ConceptId(item.key, value),
                             Filter(LAMBDA value :
                                       \E a \in DOMAIN keys : PyEq(keys[a], value),
                                    values))]
    IN  Filter(LAMBDA node : node.hasTopConcept # <<>>,
               Map(scheme, LabelledRelevant(meta)))

generate_Concept(meta) ==
    Concat(Map(LAMBDA item :
                  Map(LAMBDA label :
                         [id   |-> ConceptId(item.key, label.key),
                          type |-> "skos:Concept",
                          notation  |-> [type |-> "TypedString", content |-> str(label.key)],
                          prefLabel |-> [type |-> "TypedString", content |-> label.val]],
                      item.val),
               meta.variable_value_labels))

\* df_meta.readstat_variable_types[variable] raises KeyError
SentinelValueDomainRaises(meta) ==
    \E i \in DOMAIN relevant_variables(meta) :
        ~HasKey(meta.readstat_variable_types, relevant_variables(meta)[i].key)

generate_SentinelValueDomain(meta) ==
    LET node(item) ==
            LET variable == item.key
                elements ==
                    [id   |-> SentinelRef(variable),
                     type |-> "SentinelValueDomain",
                     recommendedDataType |->
                        [type |-> "ControlledVocabularyEntry",
                         entryValue |-> map_to_xsd_type(Get(meta.readstat_variable_types, variable))],
                     isDescribedBy |-> VarId("sentinelValueAndConceptDescription", variable)]
            IN  IF HasKey(meta.variable_value_labels, variable)
                THEN elements @@ [takesValuesFrom |->
                                    VarId("sentinelEnumerationDomain", variable)]
                ELSE elements
    IN  Map(node, relevant_variables(meta))

generate_SentinelEnumerationDomain(meta) ==
    Map(LAMBDA item :
           [id     |-> VarId("sentinelEnumerationDomain", item.key),
            type   |-> "EnumerationDomain",
            sameAs |-> VarId("sentinelConceptScheme", item.key)],
        LabelledRelevant(meta))

-----------------------------------------------------------------------------
(* The document *)

NoDoc == [returned |-> FALSE, DDICDIModels |-> <<>>, has_included |-> FALSE,
          included |-> <<>>]

\* The spssfile argument (its default value)
spssfile == "name"

\* components of lines 1378-1437, flattened as wrap_in_graph flattens them
Components(meta, d_limited, instance_values, data_points, positions, mappings) ==
    LET base ==
            generate_PhysicalDataset(meta, spssfile)
            \o generate_PhysicalRecordSegment(meta, d_limited)
            \o generate_PhysicalSegmentLayout(meta)
            \o mappings
            \o generate_ValueMappingPosition(meta)
            \o data_points
            \o positions
            \o instance_values
            \o generate_DataStore(meta)
            \o generate_LogicalRecord(meta)
            \o generate_DimensionalDataSet(meta)
            \o generate_DimensionalDataStructure(meta)
            \o generate_MeasureComponent(meta)
            \o generate_InstanceVariable(meta)
            \o generate_SubstantiveValueDomain(meta)
            \o generate_SubstantiveEnumerationDomain(meta)
            \o generate_SentinelValueDomain(meta)
            \o generate_SentinelEnumerationDomain(meta)
            \o generate_ValueAndConceptDescription(meta)
            \o generate_SubstantiveConceptScheme(meta)
            \o generate_SentinelConceptScheme(meta)
            \o generate_Concept(meta)
        pk_components ==
            IF meta.identifier_vars # <<>> /\ ~is_json_file(meta)
            THEN generate_IdentifierComponent(meta)
                 \o generate_PrimaryKey(meta)
                 \o generate_PrimaryKeyComponent(meta)
            ELSE IF meta.identifier_vars # <<>> /\ is_json_file(meta)
            THEN generate_IdentifierComponent(meta)
            ELSE <<>>
        optional ==
            (IF meta.attribute_vars # <<>> THEN generate_AttributeComponent(meta) ELSE <<>>)
            \o (IF meta.contextual_vars # <<>> THEN generate_ContextualComponent(meta) ELSE <<>>)
            \o (IF meta.synthetic_id_vars # <<>> THEN generate_SyntheticIdComponent(meta) ELSE <<>>)
            \o (IF meta.variable_value_vars # <<>>
                THEN generate_VariableValueComponent(meta)
                     \o generate_VariableDescriptorComponent(meta)
                ELSE <<>>)
    IN  base \o pk_components \o optional \o generate_ComponentPosition(meta)

\* One of the generators of lines 1378-1437 raises
ComponentsRaise(meta) ==
    \/ SubstantiveValueDomainRaises(meta)
    \/ SentinelValueDomainRaises(meta)
    \/ ValueAndConceptDescriptionRaises(meta)
    \/ SentinelConceptSchemeRaises(meta)

IsSkos(item) == StartsWith(item.type, "skos:")

wrap_in_graph(all_items) ==
    [ddi_components  |-> Filter(LAMBDA item : ~IsSkos(item), all_items),
     skos_components |-> Filter(IsSkos, all_items)]

\* json_ld_doc with an "@included" key whatever the SKOS components are
JsonLdDoc_always_included(components_dict) ==
    [returned     |-> TRUE,
     DDICDIModels |-> components_dict.ddi_components,
     has_included |-> TRUE,
     included     |-> components_dict.skos_components]

\* json_ld_doc of lines 1443-1455
JsonLdDoc(components_dict) ==
    [returned     |-> TRUE,
     DDICDIModels |-> components_dict.ddi_components,
     has_included |-> components_dict.skos_components # <<>>,
     included     |-> components_dict.skos_components]

-----------------------------------------------------------------------------
(* The steps of generate_complete_json_ld *)

\* lines 1147-1177: the chunked path is taken; the DataPoint,
\* DataPointPosition and ValueMapping nodes are generated in one pass
StartChunked ==
    /\ pc = "start"
    /\ process_all_rows /\ Len(df) > chunk_size
    /\ all_data_points' = generate_DataPoint(df, df_meta, process_all_rows, chunk_size)
    /\ all_data_point_positions' =
            generate_DataPointPosition(df, df_meta, process_all_rows, chunk_size)
    /\ value_mappings' = generate_ValueMapping(df, df_meta, process_all_rows, chunk_size)
    /\ all_instance_values' = <<>>
    /\ chunk_idx' = 0
    /\ pc' = "chunks"
    /\ UNCHANGED <<to_numeric_raises, df, df_meta, chunk_size, process_all_rows, max_rows, df_limited,
                   json_ld_doc>>

\* df.iloc[chunk_start:chunk_end] without .copy(): a dataframe over the data
\* of the caller's dataframe
chunk_view(d, chunk_start, chunk_end) ==
    [rows |-> iloc(d, chunk_start, chunk_end), shares_data |-> TRUE]

\* line 1193: df.iloc[chunk_start:chunk_end].copy(), a dataframe with data of
\* its own
chunk_copy(d, chunk_start, chunk_end) ==
    [rows |-> iloc(d, chunk_start, chunk_end), shares_data |-> FALSE]

\* lines 1200-1206: the caller's dataframe d after
\* "df_chunk[col] = pd.to_numeric(df_chunk[col], errors='ignore')" for the
\* object columns of df_chunk.  The assignment writes into df_chunk; it
\* reaches the rows chunk_start+1..chunk_end of d only when df_chunk shares
\* the data of d.
frame_after_conversion(d, df_chunk, chunk_start, chunk_end) ==
    IF df_chunk.shares_data
    THEN [i \in DOMAIN d |->
            IF i > chunk_start /\ i <= chunk_end
            THEN [variable \in DOMAIN d[i] |->
                    ChunkColumn(d, variable, chunk_start, chunk_end)[i - chunk_start]]
            ELSE d[i]]
    ELSE d

\* lines 1180-1343: one iteration of the chunk loop.  The instance values of
\* the chunk are appended (line 1317), then the iteration divides by
\* chunk_duration = chunk_end_time - chunk_start_time (lines 1323-1326),
\* outside any try: when the two readings of time.time() are equal the
\* division raises ZeroDivisionError, which leaves generate_complete_json_ld.
\* Whether the clock has advanced is the environment's choice.
ProcessChunk ==
    /\ pc = "chunks"
    /\ chunk_idx < total_chunks(df, chunk_size)
    /\ LET chunk_start == chunk_idx * chunk_size
           chunk_end   == Min(chunk_start + chunk_size, Len(df))
           df_chunk    == chunk_copy(df, chunk_start, chunk_end)
       IN  df' = frame_after_conversion(df, df_chunk, chunk_start, chunk_end)
    /\ all_instance_values' =
            all_instance_values \o ChunkInstanceValues(df, df_meta, chunk_idx, chunk_size)
    /\ \E clock_advanced \in BOOLEAN :
          IF clock_advanced
          THEN /\ chunk_idx' = chunk_idx + 1
               /\ pc' = pc
          ELSE /\ chunk_idx' = chunk_idx
               /\ pc' = "raised"
    /\ UNCHANGED <<to_numeric_raises, df_meta, chunk_size, process_all_rows, max_rows, df_limited,
                   all_data_points, all_data_point_positions, value_mappings,
                   json_ld_doc>>

\* line 1348: the loop is over
FinishChunks ==
    /\ pc = "chunks"
    /\ chunk_idx = total_chunks(df, chunk_size)
    /\ df_limited' = df
    /\ pc' = "assemble"
    /\ UNCHANGED <<to_numeric_raises, df, df_meta, chunk_size, process_all_rows, max_rows, chunk_idx,
                   all_instance_values, all_data_points, all_data_point_positions,
                   value_mappings, json_ld_doc>>

\* lines 1350-1375: the direct path
DirectPath ==
    /\ pc = "start"
    /\ ~(process_all_rows /\ Len(df) > chunk_size)
    /\ LET limited == IF Len(df) > max_rows /\ ~process_all_rows
                      THEN head(df, max_rows) ELSE df
       IN  /\ df_limited' = limited
           /\ all_instance_values' =
                 generate_InstanceValue(limited, df_meta, process_all_rows, max_rows)
           /\ all_data_points' =
                 generate_DataPoint(limited, df_meta, process_all_rows, max_rows)
           /\ all_data_point_positions' =
                 generate_DataPointPosition(limited, df_meta, process_all_rows, max_rows)
           /\ value_mappings' =
                 generate_ValueMapping(limited, df_meta, process_all_rows, max_rows)
    /\ pc' = "assemble"
    /\ UNCHANGED <<to_numeric_raises, df, df_meta, chunk_size, process_all_rows, max_rows, chunk_idx,
                   json_ld_doc>>

\* lines 1377-1493: the structural generators, wrap_in_graph and the return;
\* an exception of a generator propagates to the caller
Assemble ==
    /\ pc = "assemble"
    /\ IF ComponentsRaise(df_meta)
       THEN /\ pc' = "raised"
            /\ UNCHANGED json_ld_doc
       ELSE /\ pc' = "done"
            /\ json_ld_doc' =
                  JsonLdDoc(wrap_in_graph(
                      Components(df_meta, df_limited, all_instance_values,
                                 all_data_points, all_data_point_positions,
                                 value_mappings)))
    /\ UNCHANGED <<to_numeric_raises, df, df_meta, chunk_size, process_all_rows, max_rows, chunk_idx,
                   df_limited, all_instance_values, all_data_points,
                   all_data_point_positions, value_mappings>>

-----------------------------------------------------------------------------
(* The arguments of the call *)

\* Largest max_rows of the enumerated calls
MaxMaxRows == 2

\* A metadata object; the attributes the importers always set are filled in
\* from the columns
Meta(file_format, column_names, roles, missing_ranges, missing_user_values,
     variable_value_labels, measure) ==
    [file_format         |-> file_format,
     column_names        |-> column_names,
     identifier_vars     |-> roles.identifier,
     measure_vars        |-> roles.measure,
     attribute_vars      |-> roles.attribute,
     contextual_vars     |-> roles.contextual,
     synthetic_id_vars   |-> roles.synthetic_id,
     variable_value_vars |-> roles.variable_value,
     missing_ranges      |-> missing_ranges,
     missing_user_values |-> missing_user_values,
     variable_value_labels |-> variable_value_labels,
     variable_measure    |-> Map(LAMBDA variable : [key |-> variable, val |-> measure],
                                 column_names),
     readstat_variable_types |->
        Map(LAMBDA variable : [key |-> variable, val |-> "double"], column_names),
     original_variable_types |->
        Map(LAMBDA variable : [key |-> variable, val |-> "F8.2"], column_names),
     column_labels       |->
        Map(LAMBDA variable : [key |-> variable, val |-> variable], column_names),
     delimiter           |-> ",",
     number_rows         |-> 0]

\* number_rows as the importers set it: the number of rows read
WithRows(meta, d) == [meta EXCEPT !.number_rows = Len(d)]

NoRoles == [identifier |-> <<>>, measure |-> <<>>, attribute |-> <<>>,
            contextual |-> <<>>, synthetic_id |-> <<>>, variable_value |-> <<>>]

Columns == <<"id", "age">>

\* The dataframe with the columns id (the row number, int64) and age
Frame(ages) == [i \in DOMAIN ages |-> [id |-> PyInt(i), age |-> ages[i]]]

\* A column holds pandas.NA (dtype Int64) or str cells (dtype object), not both
ValidColumn(col) ==
    ~(/\ \E i \in DOMAIN col : col[i].k = "na"
      /\ \E i \in DOMAIN col : col[i].k \in {"str", "numstr"})

Cells == {PyInt(25), PyInt(98), PyStr("abc"), PyNA}

AgeColumns ==
    {col \in UNION {[1..n -> Cells] : n \in 0..MaxRows} : ValidColumn(col)}

RangeOf(lo, hi) == [lo |-> lo, hi |-> hi]

\* missing_ranges of the variable age: none, float bounds, int bounds, a str
\* upper bound, and a discrete str value as the importers write it
\* ({"lo": mv, "hi": mv})
AgeRanges ==
    { <<>>,
      << [key |-> "age", val |-> <<RangeOf(PyFloat(98), PyFloat(99))>>] >>,
      << [key |-> "age", val |-> <<RangeOf(PyInt(98), PyInt(99))>>] >>,
      << [key |-> "age", val |-> <<RangeOf(PyFloat(98), PyStr("z"))>>] >>,
      << [key |-> "age", val |-> <<RangeOf(PyStr("abc"), PyStr("abc"))>>] >> }

Call(d, meta, size, all_rows, limit) ==
    [df |-> d, df_meta |-> WithRows(meta, d), chunk_size |-> size, process_all_rows |-> all_rows,
     max_rows |-> limit]

\* Calls that vary the rows, the missing ranges and the row-count arguments
RowCalls ==
    { Call(Frame(col), Meta("none", Columns, NoRoles, ranges, <<>>, <<>>, "scale"),
           size, all_rows, limit) :
        col \in AgeColumns, ranges \in AgeRanges, size \in 1..MaxChunkSize,
        all_rows \in BOOLEAN, limit \in 1..MaxMaxRows }

\* The datasets of the examples: five ages, and ten rows
ExampleAges == <<PyInt(25), PyInt(98), PyInt(99), PyInt(100), PyStr("abc")>>
TenAges     == [i \in 1..10 |-> PyInt(20 + i)]
\* An object column whose second chunk of three holds only numeric text
TextAges    == <<PyNumStr(25), PyNumStr(98), PyStr("abc"), PyNumStr(99)>>
AppMaxRows  == 5
AppChunkSize == 500

ExampleCalls ==
    { Call(Frame(col), Meta("csv", Columns, NoRoles, ranges, <<>>, <<>>, "scale"),
           size, all_rows, AppMaxRows) :
        col \in {ExampleAges, TenAges, TextAges}, ranges \in AgeRanges, size \in {3, 5, 1000},
        all_rows \in BOOLEAN }

\* The roles a column can be given
RoleNames == {"identifier", "measure", "attribute", "contextual", "synthetic_id",
              "variable_value"}

\* The role lists when each column has the roles assign gives it (none, one
\* or several); every role list of stray also holds a name that is no column
RolesOf(assign, stray) ==
    LET having(role) ==
            Filter(LAMBDA variable : role \in assign[variable], Columns)
                \o (IF role \in stray THEN <<"ghost">> ELSE <<>>)
    IN  [identifier     |-> having("identifier"),
         measure        |-> having("measure"),
         attribute      |-> having("attribute"),
         contextual     |-> having("contextual"),
         synthetic_id   |-> having("synthetic_id"),
         variable_value |-> having("variable_value")]

\* No role or one role
SingleRoles == {{}} \cup {{role} : role \in RoleNames}

\* Several roles for the column id
SeveralRoles ==
    { {"identifier", "attribute"}, {"identifier", "measure"},
      {"identifier", "measure", "attribute"}, {"contextual", "variable_value"},
      {"synthetic_id", "variable_value", "measure"}, RoleNames }

\* Every assignment of no or one role to each column; assignments that give
\* several roles to id, and one or several to age; and role lists with a
\* stray name, in one role list or in all of them
RoleAssignments ==
    {RolesOf(assign, {}) : assign \in [Range(Columns) -> SingleRoles]}
    \cup {RolesOf([id |-> id_roles, age |-> age_roles], {}) :
             id_roles \in SeveralRoles,
             age_roles \in {{"measure"}, {"measure", "attribute"},
                            {"variable_value", "measure"}}}
    \cup {RolesOf([id |-> {"identifier"}, age |-> {"measure"}], stray) :
             stray \in {{role} : role \in RoleNames} \cup {RoleNames}}
    \cup {RolesOf([id |-> {}, age |-> {"measure"}], {"identifier"})}

FileFormats == {"none", "csv", "json", "netcdf"}

Label(key, text) == [key |-> key, val |-> text]
AgeDict(val) == << [key |-> "age", val |-> val] >>
FloatRange == <<RangeOf(PyFloat(98), PyFloat(99))>>

Coding(ranges, user_values, labels, measure) ==
    [ranges |-> ranges, user_values |-> user_values, labels |-> labels,
     measure |-> measure]

\* Value labels, missing values and measurement level of the variable age;
\* the last ones give missing values to the variable id as well, value
\* labels or missing values to a name that is no column, a missing range of
\* negative numeric strings, and a missing range with one numeric and one
\* non-numeric bound
Codings ==
    { Coding(<<>>, <<>>, <<>>, "scale"),
      Coding(<<>>, <<>>, AgeDict(<<Label(PyInt(1), "low"), Label(PyInt(2), "high")>>),
             "nominal"),
      Coding(AgeDict(FloatRange), <<>>, <<>>, "scale"),
      Coding(AgeDict(FloatRange), <<>>,
             AgeDict(<<Label(PyInt(1), "low"), Label(PyInt(98), "refused")>>), "ordinal"),
      Coding(AgeDict(<<RangeOf(PyInt(98), PyInt(99))>>), <<>>,
             AgeDict(<<Label(PyInt(1), "low"), Label(PyInt(98), "refused")>>), "nominal"),
      Coding(AgeDict(FloatRange), <<>>, AgeDict(<<Label(PyInt(98), "refused")>>), "nominal"),
      Coding(AgeDict(FloatRange), <<>>, AgeDict(<<Label(PyInt(1), "low")>>), "nominal"),
      Coding(<<>>, AgeDict(<<PyStr("x")>>),
             AgeDict(<<Label(PyStr("a"), "low"), Label(PyStr("x"), "refused")>>), "nominal"),
      Coding(<<>>, AgeDict(<<PyInt(98)>>),
             AgeDict(<<Label(PyInt(1), "low"), Label(PyInt(98), "refused")>>), "unknown"),
      Coding(AgeDict(FloatRange), <<>>, AgeDict(<<Label(PyStr("a"), "low")>>), "nominal"),
      Coding(<<>>, <<>>, AgeDict(<<Label(PyInt(1), "low"), Label(PyStr("1"), "one")>>),
             "nominal"),
      Coding(<<>>, <<>>, <<>>, "ratio"),
      Coding(<< [key |-> "id", val |-> FloatRange] >>, AgeDict(<<PyInt(98)>>),
             AgeDict(<<Label(PyInt(1), "low"), Label(PyInt(98), "refused")>>), "scale"),
      Coding(<<>>, <<>>, << [key |-> "ghost", val |-> <<Label(PyInt(1), "low")>>] >>, "nominal"),
      Coding(<< [key |-> "ghost", val |-> FloatRange] >>, <<>>, <<>>, "scale"),
      Coding(AgeDict(<<RangeOf(PyStr("abc"), PyInt(99))>>), <<>>,
             AgeDict(<<Label(PyStr("abc"), "refused"), Label(PyStr("x"), "low")>>), "nominal"),
      Coding(AgeDict(<<RangeOf(PyNumStr(-9), PyNumStr(-7))>>), <<>>,
             AgeDict(<<Label(PyNumStr(-9), "a"), Label(PyNumStr(-8), "b"),
                       Label(PyNumStr(1), "low")>>), "nominal"),
      Coding(AgeDict(<<RangeOf(PyNumStr(98), PyStr("z"))>>), <<>>,
             AgeDict(<<Label(PyNumStr(1), "low"), Label(PyNumStr(98), "refused")>>),
             "nominal") }

\* Calls that vary the format, the roles and the coding over a fixed dataframe
StructureCalls ==
    { Call(Frame(<<PyInt(25), PyInt(98)>>),
           Meta(file_format, Columns, roles, coding.ranges, coding.user_values,
                coding.labels, coding.measure),
           AppChunkSize, TRUE, AppMaxRows) :
        file_format \in FileFormats, roles \in RoleAssignments, coding \in Codings }

\* Calls with process_all_rows = true that vary the rows and chunk_size
ChunkCalls ==
    { Call(Frame(col), Meta("none", Columns, NoRoles, ranges, <<>>, <<>>, "scale"),
           size, TRUE, MaxMaxRows) :
        col \in AgeColumns,
        ranges \in {<<>>, << [key |-> "age", val |-> <<RangeOf(PyFloat(98), PyFloat(99))>>] >>},
        size \in 1..MaxChunkSize }

\* Type tags: keys of the type table, tags in other letter cases, and tags
\* that are no key of the table
TypeTags ==
    { "int8", "int16", "int32", "int64", "integer", "uint16", "float32",
      "float64", "double", "date", "datetime64[ns]", "bool", "object",
      "string", "Int64", "FLOAT32", "Date", "interval", "floating", "update",
      "boolish", "geometry", "" }

\* readstat_variable_types with the given tag for each column
WithTypes(meta, tags) ==
    [meta EXCEPT !.readstat_variable_types =
        [i \in DOMAIN meta.column_names |-> [key |-> meta.column_names[i], val |-> tags[i]]]]

\* Calls that vary the type tags of the two columns
TypeCalls ==
    { Call(Frame(<<PyInt(25), PyInt(98)>>),
           WithTypes(Meta("csv", Columns, NoRoles, <<>>, <<>>, <<>>, "scale"),
                     <<id_tag, age_tag>>),
           size, TRUE, AppMaxRows) :
        id_tag \in TypeTags, age_tag \in TypeTags, size \in {1, AppChunkSize} }

\* The call reaches the conversion of lines 1202-1206: the chunked path is
\* taken and a column of the dataframe has dtype object.  The loop of line
\* 1200 runs over the columns of the frame (df_chunk.columns), whether or
\* not df_meta.column_names names them.
ReachesConversion(call) ==
    /\ call.process_all_rows
    /\ Len(call.df) > call.chunk_size
    /\ Len(call.df) > 0
    /\ \E col \in DOMAIN call.df[1] : DType(call.df, col) = "object"

\* The state at the entry of generate_complete_json_ld.  What pd.to_numeric
\* does with errors='ignore' depends on the installed pandas; both outcomes
\* are enumerated for the calls that reach the conversion.
InitOf(calls) ==
    /\ \E call \in calls :
          /\ df = call.df
          /\ df_meta = call.df_meta
          /\ chunk_size = call.chunk_size
          /\ process_all_rows = call.process_all_rows
          /\ max_rows = call.max_rows
          /\ to_numeric_raises \in (IF ReachesConversion(call) THEN BOOLEAN ELSE {FALSE})
    /\ pc = "start"
    /\ chunk_idx = 0
    /\ df_limited = <<>>
    /\ all_instance_values = <<>>
    /\ all_data_points = <<>>
    /\ all_data_point_positions = <<>>
    /\ value_mappings = <<>>
    /\ json_ld_doc = NoDoc

Init     == InitOf(StructureCalls \cup ExampleCalls)
InitRows == InitOf(RowCalls \cup ExampleCalls)

InitTypes == InitOf(TypeCalls)
InitChunks == InitOf(ChunkCalls)

Next ==
    \/ StartChunked
    \/ ProcessChunk
    \/ FinishChunks
    \/ DirectPath
    \/ Assemble

\* Calls over the formats, roles and codings
Spec == Init /\ [][Next]_vars

\* Calls over the rows and the row-count arguments
SpecRows == InitRows /\ [][Next]_vars
SpecTypes == InitTypes /\ [][Next]_vars

\* The for loop of lines 1180-1317 takes its next iteration, and leaves when
\* the range is exhausted: nothing in a sequential call suspends it
SpecChunks ==
    InitChunks /\ [][Next]_vars /\ WF_vars(ProcessChunk) /\ WF_vars(FinishChunks)

-----------------------------------------------------------------------------
(* MemoryManager *)

\* Largest available_memory_mb of the enumerated calls
MaxMemoryMB == 6

\* element_size = 500  # bytes
element_size == 500

\* test_chunk = 100
test_chunk == 100

\* estimate_memory_usage: memory_mb = (total_elements * element_size) /
\* (1024 * 1024), kept as the fraction num / den.  The numerator is below
\* 2^53 and the denominator is a power of two, so the float of the code is
\* this fraction exactly.
estimate_memory_usage(d, meta, all_rows, size) ==
    LET rows_to_process == IF all_rows THEN Len(d) ELSE Min(Len(d), size)
        total_elements  == rows_to_process * Len(meta.column_names) * 3
                           + Len(meta.column_names)
    IN  [num |-> total_elements * element_size, den |-> 1024 * 1024]

\* safe_memory / memory_per_row raises ZeroDivisionError (line 1543): no
\* column name, so memory_for_test is 0.0
optimize_raises(d, meta) ==
    /\ Len(d) # 0
    /\ estimate_memory_usage(head(d, test_chunk), meta, TRUE, test_chunk).num = 0

\* The rounding of lines 1549-1556
round_chunk(optimal_chunk) ==
    IF optimal_chunk > 1000 THEN (optimal_chunk \div 1000) * 1000
    ELSE IF optimal_chunk > 500 THEN (optimal_chunk \div 500) * 500
    ELSE IF optimal_chunk > 100 THEN (optimal_chunk \div 100) * 100
    ELSE optimal_chunk

\* int(safe_memory / memory_per_row) with memory_per_row = memory_for_test /
\* test_chunk and safe_memory = available_memory_mb * 0.8, for an integer
\* available_memory_mb: the floor of the exact quotient.  For the enumerated
\* calls the quotient is no integer and lies further from one than the
\* rounding of the three float operations, so the floor is the code's int().
\* The quotient is (available_memory_mb * 8 * den * test_chunk) / (10 * num);
\* the factor 200 common to 8 * test_chunk and 10 * element_size is cancelled
\* to keep the products within 32 bits.
optimal_chunk_of(d, meta, available_memory_mb) ==
    LET memory_for_test ==
            estimate_memory_usage(head(d, test_chunk), meta, TRUE, test_chunk)
    IN  (available_memory_mb * ((8 * test_chunk) \div 200) * memory_for_test.den)
            \div (((10 * element_size) \div 200) * (memory_for_test.num \div element_size))

\* MemoryManager.optimize_chunk_size, for a call that does not raise
optimize_chunk_size(d, meta, available_memory_mb) ==
    IF Len(d) = 0 THEN 100
    ELSE LET optimal_chunk == optimal_chunk_of(d, meta, available_memory_mb)
         IN  round_chunk(Max(50, Min(Len(d), optimal_chunk)))

\* def optimize_chunk_size(df, df_meta, available_memory_mb=500)
DefaultMemoryMB == 500

\* The values of available_memory_mb of the enumerated calls: small ones, for
\* which optimal_chunk is below the number of rows, and the default, which
\* is what every call of app.py passes
MemoryArguments == (1..MaxMemoryMB) \cup {DefaultMemoryMB}

\* One call of MemoryManager.optimize_chunk_size(df, df_meta,
\* available_memory_mb), lines 1525-1556: it returns the chunk size, held in
\* chunk_size from then on, or leaves with the ZeroDivisionError of line 1543
OptimizeChunkSize ==
    /\ pc = "optimize"
    /\ \E available_memory_mb \in MemoryArguments :
          IF optimize_raises(df, df_meta)
          THEN /\ pc' = "raised"
               /\ UNCHANGED chunk_size
          ELSE /\ pc' = "optimized"
               /\ chunk_size' = optimize_chunk_size(df, df_meta, available_memory_mb)
    /\ UNCHANGED <<to_numeric_raises, df, df_meta, process_all_rows, max_rows, chunk_idx,
                   df_limited, all_instance_values, all_data_points,
                   all_data_point_positions, value_mappings, json_ld_doc>>

\* Row counts around the clamp at 50 rows and the rounding steps
RowCounts == {0, 1, 10, 49, 50, 51, 75, 100, 101, 150, 200, 300, 501, 600, 1001, 1200, 2500}

\* The dataframes and metadata optimize_chunk_size is called with: frames of
\* those lengths, metadata of no, one and two column names
MemoryCalls ==
    { Call(Frame([i \in 1..n |-> PyInt(20 + (i % 80))]),
           Meta("csv", names, NoRoles, <<>>, <<>>, <<>>, "scale"),
           0, FALSE, AppMaxRows) :
        n \in RowCounts, names \in {<<>>, <<"id">>, Columns} }

\* The state before optimize_chunk_size is called: no chunk size has been
\* returned yet (chunk_size = 0), and nothing of generate_complete_json_ld
\* has run
InitMemory ==
    /\ \E call \in MemoryCalls :
          /\ df = call.df
          /\ df_meta = call.df_meta
          /\ chunk_size = call.chunk_size
          /\ process_all_rows = call.process_all_rows
          /\ max_rows = call.max_rows
    /\ to_numeric_raises = FALSE
    /\ pc = "optimize"
    /\ chunk_idx = 0
    /\ df_limited = <<>>
    /\ all_instance_values = <<>>
    /\ all_data_points = <<>>
    /\ all_data_point_positions = <<>>
    /\ value_mappings = <<>>
    /\ json_ld_doc = NoDoc

NextMemory == OptimizeChunkSize

\* Calls of MemoryManager.optimize_chunk_size over the row counts, the
\* column names and available_memory_mb
SpecMemory == InitMemory /\ [][NextMemory]_vars

-----------------------------------------------------------------------------
(* Reading the returned document *)

\* DDICDIModels and @included taken together
AllNodes(doc) == doc.DDICDIModels \o doc.included

NodesOfType(nodes, type) == Filter(LAMBDA node : node.type = type, nodes)

Ids(nodes) == {nodes[i].id : i \in DOMAIN nodes}

\* The ids a row-level generator can give to the rows 0..n-1 of a variable
RowIds(prefix, variable, n) == {RowId(prefix, i, variable) : i \in 0..(n - 1)}

\* The nodes of a type that belong to the rows 0..n-1 of a variable, in order
VariableRows(nodes, type, prefix, variable, n) ==
    Filter(LAMBDA node : node.type = type /\ node.id \in RowIds(prefix, variable, n),
           nodes)

Returned == pc = "done"

-----------------------------------------------------------------------------
(* C1: chunking equivalence *)

\* The row-level nodes of one variable agree between two lists of nodes
SameRowsOf(variable, nodes, reference, n) ==
    /\ VariableRows(nodes, "InstanceValue", "instanceValue", variable, n)
         = VariableRows(reference, "InstanceValue", "instanceValue", variable, n)
    /\ VariableRows(nodes, "DataPoint", "dataPoint", variable, n)
         = VariableRows(reference, "DataPoint", "dataPoint", variable, n)
    /\ VariableRows(nodes, "DataPointPosition", "dataPointPosition", variable, n)
         = VariableRows(reference, "DataPointPosition", "dataPointPosition", variable, n)

RowLevelTypes == {"DataPoint", "DataPointPosition", "ValueMapping", "InstanceValue"}

RowLevelNodes(nodes) == Filter(LAMBDA node : node.type \in RowLevelTypes, nodes)

\* What one pass over all the rows yields (the direct path with
\* process_all_rows = true)
OnePass(d, meta) ==
    generate_ValueMapping(d, meta, TRUE, Len(d))
    \o generate_DataPoint(d, meta, TRUE, Len(d))
    \o generate_DataPointPosition(d, meta, TRUE, Len(d))
    \o generate_InstanceValue(d, meta, TRUE, Len(d))

\* C1: with process_all_rows = true the row-level nodes of the returned
\* document are those of one pass over all the rows, whatever chunk_size is
\* and whichever path is taken: the same ids, the same fields for each id and
\* the same row order within each variable.
C1_ChunkingEquivalence ==
    (Returned /\ process_all_rows) =>
        LET nodes     == RowLevelNodes(json_ld_doc.DDICDIModels)
            reference == OnePass(df, df_meta)
        IN  /\ Ids(nodes) = Ids(reference)
            /\ Len(nodes) = Len(reference)
            /\ NodesOfType(nodes, "ValueMapping") = NodesOfType(reference, "ValueMapping")
            /\ \A i \in DOMAIN df_meta.column_names :
                  SameRowsOf(df_meta.column_names[i], nodes, reference, Len(df))

-----------------------------------------------------------------------------
(* C2: referential integrity *)

SingleReferences ==
    {"correspondsTo_DataSet", "mapsTo", "has_PhysicalSegmentLayout", "organizes",
     "isStructuredBy", "has_PrimaryKey", "isDefinedBy_InstanceVariable",
     "isDefinedBy_RepresentedVariable", "refersTo", "indexes",
     "correspondsTo_DataStructureComponent", "has_ValueMapping",
     "takesSubstantiveValuesFrom_SubstantiveValueDomain", "takesSentinelValuesFrom",
     "isDescribedBy", "has_DataPoint_OF_DataSet", "isStoredIn",
     "hasValueFrom_ValueDomain", "takesValuesFrom", "sameAs"}

ListReferences ==
    {"has_PhysicalRecordSegment", "has_DataPointPosition", "has_ValueMappingPosition",
     "has_LogicalRecord", "has_InstanceVariable", "has_DataStructureComponent",
     "has_ComponentPosition", "isComposedOf", "hasTopConcept"}

\* The ids a node refers to; "formats" is a list of ids in a ValueMapping and
\* one id elsewhere
References(node) ==
    {node[f] : f \in DOMAIN node \cap SingleReferences}
    \cup UNION {Range(node[f]) : f \in DOMAIN node \cap ListReferences}
    \cup (IF "formats" \in DOMAIN node
          THEN IF node.type = "ValueMapping" THEN Range(node.formats) ELSE {node.formats}
          ELSE {})

Dangling(doc) == UNION {References(AllNodes(doc)[i]) : i \in DOMAIN AllNodes(doc)}
                    \ Ids(AllNodes(doc))

\* C2: every id a node of the returned document refers to is the id of a node
\* of the same document.
C2_ReferentialIntegrity == Returned => Dangling(json_ld_doc) = {}

-----------------------------------------------------------------------------
(* C3: identifier uniqueness *)

\* C3: no two nodes of the returned document have the same id.
C3_UniqueIds ==
    Returned =>
        \A i, j \in DOMAIN AllNodes(json_ld_doc) :
            i # j => AllNodes(json_ld_doc)[i].id # AllNodes(json_ld_doc)[j].id

-----------------------------------------------------------------------------
(* C4: as many ComponentPosition nodes as structure components *)

StructureNode(doc) ==
    CHOOSE node \in Range(doc.DDICDIModels) : node.id = _get_structure_reference(df_meta)

\* C4: the number of ComponentPosition nodes equals the length of the
\* structure node's has_DataStructureComponent list.
C4_PositionCount ==
    Returned =>
        Len(NodesOfType(json_ld_doc.DDICDIModels, "ComponentPosition"))
            = Len(StructureNode(json_ld_doc).has_DataStructureComponent)

-----------------------------------------------------------------------------
(* C5: classification against numeric missing ranges *)

NumericBounds(ranges) ==
    ranges # <<>> /\ \A i \in DOMAIN ranges : IsNumber(ranges[i].lo) /\ IsNumber(ranges[i].hi)

\* The cell parses as a number v with lo <= v <= hi for some range
Sentinel(cell, ranges) ==
    /\ cell.k \in {"int", "float", "numstr"}
    /\ \E i \in DOMAIN ranges : ranges[i].lo.n <= cell.n /\ cell.n <= ranges[i].hi.n

\* C5: for a variable whose missing ranges have numeric bounds, an
\* InstanceValue takes its value from the sentinel domain exactly when its
\* cell parses as a number inside one of the ranges, and from the substantive
\* domain otherwise.
C5_Classification ==
    Returned =>
        \A k \in DOMAIN df_meta.missing_ranges :
            LET variable == df_meta.missing_ranges[k].key
                ranges   == df_meta.missing_ranges[k].val
            IN  NumericBounds(ranges) =>
                    \A r \in DOMAIN df, i \in DOMAIN json_ld_doc.DDICDIModels :
                        LET node == json_ld_doc.DDICDIModels[i]
                        IN  (node.id = RowId("instanceValue", r - 1, variable)) =>
                                node.hasValueFrom_ValueDomain
                                    = ValueDomain(Sentinel(df[r][variable], ranges), variable)

-----------------------------------------------------------------------------
(* C6, C7: how many rows are materialized *)

\* The row-level nodes of a variable are those of the rows 0..n-1 of the
\* dataframe, one of each type per row, and its ValueMapping lists n formats
MaterializedRows(nodes, variable, n) ==
    /\ Ids(NodesOfType(nodes, "DataPoint")) \cap RowIds("dataPoint", variable, Len(df))
         = RowIds("dataPoint", variable, n)
    /\ Ids(NodesOfType(nodes, "DataPointPosition"))
         \cap RowIds("dataPointPosition", variable, Len(df))
         = RowIds("dataPointPosition", variable, n)
    /\ Ids(NodesOfType(nodes, "InstanceValue"))
         \cap RowIds("instanceValue", variable, Len(df))
         = RowIds("instanceValue", variable, n)
    /\ Len(VariableRows(nodes, "DataPoint", "dataPoint", variable, Len(df))) = n
    /\ Len(VariableRows(nodes, "DataPointPosition", "dataPointPosition", variable,
                        Len(df))) = n
    /\ Len(VariableRows(nodes, "InstanceValue", "instanceValue", variable, Len(df))) = n
    /\ \A i \in DOMAIN nodes :
          /\ (nodes[i].id = VarId("valueMapping", variable)) => Len(nodes[i].formats) = n
          /\ \A r \in 1..n :
                (nodes[i].id = RowId("instanceValue", r - 1, variable)) =>
                    nodes[i].content.content = str(df[r][variable])

\* No row-level node belongs to anything but the rows 0..n-1 of the columns
OnlyRows(nodes, n) ==
    /\ Len(NodesOfType(nodes, "DataPoint")) = n * Len(df_meta.column_names)
    /\ Len(NodesOfType(nodes, "DataPointPosition")) = n * Len(df_meta.column_names)
    /\ Len(NodesOfType(nodes, "InstanceValue")) = n * Len(df_meta.column_names)

\* C6: with process_all_rows = false exactly the first min(len(df), max_rows)
\* rows are materialized, whatever chunk_size is: that many DataPoint,
\* DataPointPosition and InstanceValue nodes per variable, and that many
\* formats in its ValueMapping.
C6_Truncation ==
    (Returned /\ ~process_all_rows) =>
        /\ \A i \in DOMAIN df_meta.column_names :
              MaterializedRows(json_ld_doc.DDICDIModels, df_meta.column_names[i],
                               Min(Len(df), max_rows))
        /\ OnlyRows(json_ld_doc.DDICDIModels, Min(Len(df), max_rows))

\* A ten-row dataset with max_rows = 5 was returned with five rows
C6_Witness ==
    /\ Returned /\ ~process_all_rows
    /\ Len(df) = 10 /\ max_rows = 5
    /\ Len(VariableRows(json_ld_doc.DDICDIModels, "DataPoint", "dataPoint", "age", 10)) = 5
    /\ Len(VariableRows(json_ld_doc.DDICDIModels, "InstanceValue", "instanceValue",
                        "age", 10)) = 5

\* C7: with process_all_rows = true every row is materialized, on the chunked
\* and on the direct path, whatever chunk_size and max_rows are: len(df)
\* DataPoint, DataPointPosition and InstanceValue nodes per variable, for the
\* rows 0..len(df)-1.
C7_AllRows ==
    (Returned /\ process_all_rows) =>
        /\ \A i \in DOMAIN df_meta.column_names :
              MaterializedRows(json_ld_doc.DDICDIModels, df_meta.column_names[i], Len(df))
        /\ OnlyRows(json_ld_doc.DDICDIModels, Len(df))

-----------------------------------------------------------------------------
(* C8, C9, C10: the nodes the file format selects *)

\* The format the caller declared
Json   == df_meta.file_format = "json"
NetCDF == df_meta.file_format = "netcdf"

DataSetTypes   == {"WideDataSet", "KeyValueDataStore", "DimensionalDataSet"}
StructureTypes == {"WideDataStructure", "KeyValueStructure", "DimensionalDataStructure"}

TypesIn(nodes, types) == {nodes[i].type : i \in DOMAIN nodes} \cap types

\* C8: the dataset node and the structure node have the types of the format:
\* WideDataSet and WideDataStructure for tabular or default input,
\* KeyValueDataStore and KeyValueStructure for JSON, DimensionalDataSet and
\* DimensionalDataStructure for NetCDF.
C8_FormatTypes ==
    Returned =>
        /\ TypesIn(json_ld_doc.DDICDIModels, DataSetTypes) =
              IF Json THEN {"KeyValueDataStore"}
              ELSE IF NetCDF THEN {"DimensionalDataSet"}
              ELSE {"WideDataSet"}
        /\ TypesIn(json_ld_doc.DDICDIModels, StructureTypes) =
              IF Json THEN {"KeyValueStructure"}
              ELSE IF NetCDF THEN {"DimensionalDataStructure"}
              ELSE {"WideDataStructure"}

\* The role variables that are columns
ColumnsIn(role_vars) == {v \in Range(role_vars) : InList(v, df_meta.column_names)}

\* The nodes of the given types are exactly one node of type `type` with the
\* id #prefix-v for each variable of vars
ComponentsAre(nodes, types, type, prefix, variables) ==
    /\ \A i \in DOMAIN nodes :
          nodes[i].type \in types =>
              /\ nodes[i].type = type
              /\ nodes[i].id \in {VarId(prefix, v) : v \in variables}
    /\ \A v \in variables :
          \E i \in DOMAIN nodes : nodes[i].id = VarId(prefix, v) /\ nodes[i].type = type

IdentifierTypes == {"IdentifierComponent", "DimensionComponent"}
MeasureTypes    == {"MeasureComponent", "QualifiedMeasure"}

\* The component references of the structure node that start with one of the
\* prefixes
WithPrefix(references, prefixes) ==
    {r \in Range(references) : \E p \in prefixes : StartsWith(r, "#" \o p \o "-")}

\* C9: identifier-role and measure-role variables are DimensionComponent
\* (#dimensionComponent-v) and QualifiedMeasure (#qualifiedMeasure-v) nodes
\* for NetCDF, IdentifierComponent (#identifierComponent-v) and
\* MeasureComponent (#measureComponent-v) nodes for tabular input, and for
\* JSON IdentifierComponent nodes with no measure-role node at all; the
\* structure node refers to components with the same prefixes.
C9_ComponentTypes ==
    Returned =>
        LET nodes      == json_ld_doc.DDICDIModels
            netcdf     == NetCDF
            id_type    == IF netcdf THEN "DimensionComponent" ELSE "IdentifierComponent"
            id_prefix  == IF netcdf THEN "dimensionComponent" ELSE "identifierComponent"
            m_type     == IF netcdf THEN "QualifiedMeasure" ELSE "MeasureComponent"
            m_prefix   == IF netcdf THEN "qualifiedMeasure" ELSE "measureComponent"
            references == StructureNode(json_ld_doc).has_DataStructureComponent
        IN  /\ ComponentsAre(nodes, IdentifierTypes, id_type, id_prefix,
                             ColumnsIn(df_meta.identifier_vars))
            /\ IF Json
               THEN TypesIn(nodes, MeasureTypes) = {}
               ELSE /\ df_meta.measure_vars # <<>> =>
                          ComponentsAre(nodes, MeasureTypes, m_type, m_prefix,
                                        ColumnsIn(df_meta.measure_vars))
                    /\ \A i \in DOMAIN nodes :
                          nodes[i].type \in MeasureTypes =>
                              /\ nodes[i].type = m_type
                              /\ nodes[i].id \in {VarId(m_prefix, v) :
                                                     v \in Range(df_meta.column_names)}
            /\ WithPrefix(references, {"identifierComponent", "dimensionComponent"})
                  = {VarId(id_prefix, v) : v \in ColumnsIn(df_meta.identifier_vars)}
            /\ WithPrefix(references, {"measureComponent", "qualifiedMeasure"})
                  \subseteq {VarId(m_prefix, v) : v \in Range(df_meta.column_names)}
            /\ Json =>
                  WithPrefix(references, {"measureComponent", "qualifiedMeasure"}) = {}
            /\ ~Json =>
                  {VarId(m_prefix, v) : v \in ColumnsIn(df_meta.measure_vars)}
                      \subseteq Range(references)

\* A NetCDF document with a dimension and a qualified measure was returned
C9_Witness ==
    /\ Returned /\ NetCDF
    /\ df_meta.identifier_vars = <<"id">> /\ df_meta.measure_vars = <<"age">>
    /\ \E i \in DOMAIN json_ld_doc.DDICDIModels :
          /\ json_ld_doc.DDICDIModels[i].type = "DimensionComponent"
          /\ json_ld_doc.DDICDIModels[i].id = "#dimensionComponent-id"
    /\ \E i \in DOMAIN json_ld_doc.DDICDIModels :
          /\ json_ld_doc.DDICDIModels[i].type = "QualifiedMeasure"
          /\ json_ld_doc.DDICDIModels[i].id = "#qualifiedMeasure-age"

HasPrimaryKeyNode(doc)   == TypesIn(doc.DDICDIModels, {"PrimaryKey"}) # {}
HasPrimaryKeyComponents(doc) == TypesIn(doc.DDICDIModels, {"PrimaryKeyComponent"}) # {}
HasPrimaryKeyReference(doc)  == "has_PrimaryKey" \in DOMAIN StructureNode(doc)

PrimaryKeyExpected(meta) == meta.identifier_vars # <<>> /\ meta.file_format # "json"

\* C10 as stated: the PrimaryKey node, the PrimaryKeyComponent nodes and the
\* has_PrimaryKey reference are present exactly when identifier_vars is not
\* empty and the format is not JSON; for JSON the IdentifierComponent nodes
\* are still emitted.
C10_AsStated ==
    Returned =>
        /\ HasPrimaryKeyNode(json_ld_doc) <=> PrimaryKeyExpected(df_meta)
        /\ HasPrimaryKeyComponents(json_ld_doc) <=> PrimaryKeyExpected(df_meta)
        /\ HasPrimaryKeyReference(json_ld_doc) <=> PrimaryKeyExpected(df_meta)
        /\ (Json /\ df_meta.identifier_vars # <<>>) =>
              TypesIn(json_ld_doc.DDICDIModels, {"IdentifierComponent"}) # {}

\* C10, amended: the PrimaryKey node and the has_PrimaryKey reference are
\* present exactly when identifier_vars is not empty and the format is not
\* JSON; the PrimaryKeyComponent nodes are then one for each identifier
\* variable that is a column, and none otherwise; there is an
\* IdentifierComponent (DimensionComponent for NetCDF) node for each
\* identifier variable that is a column in every format, JSON included.
C10_PrimaryKey ==
    Returned =>
        LET nodes == json_ld_doc.DDICDIModels
        IN  /\ HasPrimaryKeyNode(json_ld_doc) <=> PrimaryKeyExpected(df_meta)
            /\ HasPrimaryKeyReference(json_ld_doc) <=> PrimaryKeyExpected(df_meta)
            /\ ComponentsAre(nodes, {"PrimaryKeyComponent"}, "PrimaryKeyComponent",
                             "primaryKeyComponent",
                             IF PrimaryKeyExpected(df_meta)
                             THEN ColumnsIn(df_meta.identifier_vars) ELSE {})
            /\ \A v \in ColumnsIn(df_meta.identifier_vars) :
                  \E i \in DOMAIN nodes :
                      /\ nodes[i].type \in IdentifierTypes
                      /\ nodes[i].id \in {VarId("identifierComponent", v),
                                          VarId("dimensionComponent", v)}

\* A JSON document with an identifier variable was returned: it has the
\* IdentifierComponent node and none of the primary key nodes
C10_Witness ==
    /\ Returned /\ Json
    /\ df_meta.identifier_vars = <<"id">>
    /\ ~HasPrimaryKeyNode(json_ld_doc)
    /\ ~HasPrimaryKeyComponents(json_ld_doc)
    /\ \E i \in DOMAIN json_ld_doc.DDICDIModels :
          json_ld_doc.DDICDIModels[i].id = "#identifierComponent-id"

-----------------------------------------------------------------------------
\* The nodes generated by the call, in the order of generation
Generated ==
    Components(df_meta, df_limited, all_instance_values, all_data_points,
               all_data_point_positions, value_mappings)

SkosTypes == {"skos:ConceptScheme", "skos:Concept"}

SkosNodes(nodes)    == Filter(LAMBDA node : node.type \in SkosTypes, nodes)
NonSkosNodes(nodes) == Filter(LAMBDA node : node.type \notin SkosTypes, nodes)

\* C11: the returned document has an "@included" key exactly when a node of
\* type skos:ConceptScheme or skos:Concept was generated; "@included" then
\* holds exactly the SKOS nodes and "DDICDIModels" exactly all other nodes,
\* so every generated node is in exactly one of the two arrays; without value
\* labels the key is absent rather than an empty array.
C11_IncludedPartition ==
    Returned =>
        /\ json_ld_doc.has_included <=> SkosNodes(Generated) # <<>>
        /\ json_ld_doc.has_included =>
               json_ld_doc.included = SkosNodes(Generated)
        /\ json_ld_doc.DDICDIModels = NonSkosNodes(Generated)
        /\ Len(json_ld_doc.DDICDIModels)
             + (IF json_ld_doc.has_included THEN Len(json_ld_doc.included)
                                            ELSE 0)
             = Len(Generated)
        /\ df_meta.variable_value_labels = <<>> => ~json_ld_doc.has_included

\* a document with SKOS nodes in "@included" and other nodes in "DDICDIModels"
C11_Witness ==
    /\ Returned
    /\ json_ld_doc.has_included
    /\ \E i \in DOMAIN json_ld_doc.included :
          json_ld_doc.included[i].type = "skos:Concept"
    /\ json_ld_doc.DDICDIModels # <<>>

\* a document without value labels and without the key
C11_WitnessAbsent ==
    /\ Returned
    /\ df_meta.variable_value_labels = <<>>
    /\ ~json_ld_doc.has_included

-----------------------------------------------------------------------------
RowTypes == {"DataPoint", "DataPointPosition", "InstanceValue"}

\* C12: for a dataframe without rows the call does not raise and returns,
\* with process_all_rows false and true alike, exactly one ValueMapping per
\* variable, each with an empty "formats" list, and no DataPoint,
\* DataPointPosition or InstanceValue node.
C12_ZeroRows ==
    Len(df) = 0 =>
        /\ pc # "raised"
        /\ Returned =>
             LET nodes    == AllNodes(json_ld_doc)
                 mappings == NodesOfType(nodes, "ValueMapping")
             IN  /\ Len(mappings) = Len(df_meta.column_names)
                 /\ \A i \in DOMAIN df_meta.column_names :
                       /\ mappings[i].id =
                              "#valueMapping-" \o df_meta.column_names[i]
                       /\ mappings[i].formats = <<>>
                 /\ \A i \in DOMAIN nodes : nodes[i].type \notin RowTypes

\* a returned document for a dataframe without rows, all rows requested
C12_Witness ==
    /\ Returned
    /\ Len(df) = 0
    /\ process_all_rows
    /\ NodesOfType(AllNodes(json_ld_doc), "ValueMapping") # <<>>

-----------------------------------------------------------------------------
\* The type tag of a variable, as the call received it
TypeTagOf(variable) == Get(df_meta.readstat_variable_types, variable)

\* The reference mapping: the exact entry of the type table first, then the
\* substring rules in their order, then string
ReferenceType(tag) ==
    LET t == lower(tag)
    IN  IF HasKey(type_mapping, t) THEN XsdBase \o Get(type_mapping, t)
        ELSE IF Contains(t, "int") THEN XsdBase \o "integer"
        ELSE IF Contains(t, "float") THEN XsdBase \o "double"
        ELSE IF Contains(t, "date") THEN XsdBase \o "dateTime"
        ELSE IF Contains(t, "bool") THEN XsdBase \o "boolean"
        ELSE XsdBase \o "string"

\* C13: map_to_xsd_type(t) equals, case-insensitively and for every type tag
\* t, the reference mapping (exact entry of the type table first, then the
\* first matching substring rule int -> integer, float -> double,
\* date -> dateTime, bool -> boolean, then string); the recommended data type
\* of every variable in the returned document is the reference's URI, and the
\* call never fails on a tag.
C13_TypeMapping ==
    /\ pc # "raised"
    /\ Returned =>
         LET domains == NodesOfType(AllNodes(json_ld_doc), "SubstantiveValueDomain")
         IN  /\ Len(domains) = Len(df_meta.column_names)
             /\ \A i \in DOMAIN df_meta.column_names :
                   domains[i].recommendedDataType.entryValue =
                       ReferenceType(TypeTagOf(df_meta.column_names[i]))

-----------------------------------------------------------------------------
\* C14: generate_complete_json_ld is deterministic: two calls with equal
\* arguments have the same outcome, so whether a call leaves with an
\* exception is decided by its arguments alone (by the structural generators
\* raising on the metadata), never by anything else.
C14_Deterministic == pc = "raised" => ComponentsRaise(df_meta)

-----------------------------------------------------------------------------
\* The number of rows the call is to process
RowsProcessed == IF process_all_rows THEN Len(df) ELSE Min(Len(df), max_rows)

\* C15: for R rows processed, every variable v and every i in 0..R-1 there is
\* exactly one DataPoint #dataPoint-i-v, exactly one DataPointPosition
\* #dataPointPosition-i-v with value i that indexes #dataPoint-i-v, and
\* exactly one InstanceValue #instanceValue-i-v stored in #dataPoint-i-v;
\* there is no such node for i >= R; on the direct and on the chunked path.
C15_RowStructure ==
    Returned =>
        LET nodes     == AllNodes(json_ld_doc)
            points    == NodesOfType(nodes, "DataPoint")
            positions == NodesOfType(nodes, "DataPointPosition")
            values    == NodesOfType(nodes, "InstanceValue")
            R         == RowsProcessed
            variables == Range(df_meta.column_names)
            Once(s, id) == Cardinality({k \in DOMAIN s : s[k].id = id}) = 1
        IN  /\ \A v \in variables : \A i \in 0..(R - 1) :
                  /\ Once(points, RowId("dataPoint", i, v))
                  /\ Once(positions, RowId("dataPointPosition", i, v))
                  /\ Once(values, RowId("instanceValue", i, v))
                  /\ \A k \in DOMAIN positions :
                        positions[k].id = RowId("dataPointPosition", i, v) =>
                            /\ positions[k].value = i
                            /\ positions[k].indexes = RowId("dataPoint", i, v)
                  /\ \A k \in DOMAIN values :
                        values[k].id = RowId("instanceValue", i, v) =>
                            values[k].isStoredIn = RowId("dataPoint", i, v)
            /\ Ids(points) = UNION {RowIds("dataPoint", v, R) : v \in variables}
            /\ Ids(positions) = UNION {RowIds("dataPointPosition", v, R) : v \in variables}
            /\ Ids(values) = UNION {RowIds("instanceValue", v, R) : v \in variables}

-----------------------------------------------------------------------------
Chunked == process_all_rows /\ Len(df) > chunk_size

\* ceil(len(df) / chunk_size)
CeilChunks ==
    CHOOSE n \in 0..Len(df) : n * chunk_size >= Len(df) /\ (n - 1) * chunk_size < Len(df)

\* The rows [k * chunk_size, min((k + 1) * chunk_size, len(df)))
Window(k) ==
    {i \in 0..(Len(df) - 1) :
        k * chunk_size <= i /\ i < Min((k + 1) * chunk_size, Len(df))}

\* The InstanceValue nodes a step appends
Appended ==
    SubSeq(all_instance_values', Len(all_instance_values) + 1, Len(all_instance_values'))

\* One iteration: the next chunk in ascending order, whose nodes carry the
\* global row indices of its window
ChunkStep ==
    /\ chunk_idx' = chunk_idx + 1
    /\ chunk_idx < CeilChunks
    /\ Len(all_instance_values') >= Len(all_instance_values)
    /\ SubSeq(all_instance_values', 1, Len(all_instance_values)) = all_instance_values
    /\ \A k \in DOMAIN Appended :
          \E i \in Window(chunk_idx), v \in Range(df_meta.column_names) :
              /\ Appended[k].id = RowId("instanceValue", i, v)
              /\ Appended[k].isStoredIn = RowId("dataPoint", i, v)
    /\ \A i \in Window(chunk_idx), v \in Range(df_meta.column_names) :
          \E k \in DOMAIN Appended : Appended[k].id = RowId("instanceValue", i, v)

ChunkLoopStep ==
    /\ (pc = "start" /\ pc' = "chunks") => (Chunked /\ chunk_idx' = 0)
    /\ (pc = "chunks" /\ pc' = "chunks") => ChunkStep
    /\ (pc = "chunks" /\ pc' # "chunks") =>
          (chunk_idx = CeilChunks /\ pc' = "assemble" /\ UNCHANGED all_instance_values)

\* The windows are non-empty, pairwise disjoint and cover the rows
WindowsPartition ==
    (pc = "chunks") =>
        /\ chunk_size >= 1
        /\ \A k \in 0..(CeilChunks - 1) : Window(k) # {}
        /\ \A j, k \in 0..(CeilChunks - 1) : j # k => Window(j) \cap Window(k) = {}
        /\ UNION {Window(k) : k \in 0..(CeilChunks - 1)} = 0..(Len(df) - 1)

\* C16: on the chunked path (process_all_rows = true, len(df) > chunk_size
\* >= 1) the loop runs exactly ceil(len(df) / chunk_size) chunks in ascending
\* order and then terminates; chunk k covers the rows
\* [k * chunk_size, min((k + 1) * chunk_size, len(df))), the windows are
\* non-empty, pairwise disjoint and cover 0..len(df)-1; every InstanceValue
\* of a chunk carries the global row index in its id and in isStoredIn.
C16_ChunkLoop ==
    /\ [][ChunkLoopStep]_vars
    /\ [](WindowsPartition)
    /\ ((pc = "chunks") ~> (pc = "assemble"))

\* the loop over three rows in chunks of two is over after two chunks
C16_Witness ==
    /\ pc = "assemble"
    /\ Chunked
    /\ Len(df) = 3 /\ chunk_size = 2
    /\ chunk_idx = 2
    /\ Len(all_instance_values) >= 6

-----------------------------------------------------------------------------
\* The vectorized evaluation of a variable raises in the chunk at chunk_start
RaisesInChunk(variable, chunk_start, chunk_end) ==
    LET numeric_ranges == NumericRanges(GetOr(df_meta.missing_ranges, variable, <<>>))
        col_values     == ChunkColumn(df, variable, chunk_start, chunk_end)
    IN  /\ numeric_ranges # <<>>
        /\ is_numeric_dtype(df, variable, col_values)
        /\ VectorizedRaises(col_values, chunk_start, numeric_ranges)

\* The nodes of element-by-element evaluation of a variable in a chunk
ElementByElement(variable, chunk_start, chunk_end) ==
    FallbackValues(variable, ChunkColumn(df, variable, chunk_start, chunk_end),
                   chunk_start, HasKey(df_meta.missing_ranges, variable),
                   GetOr(df_meta.missing_ranges, variable, <<>>))

FallbackStep ==
    (pc = "chunks" /\ chunk_idx' = chunk_idx + 1) =>
        LET chunk_start == chunk_idx * chunk_size
            chunk_end   == Min(chunk_start + chunk_size, Len(df))
        IN  /\ pc' = "chunks"
            /\ SubSeq(all_instance_values', 1, Len(all_instance_values))
                  = all_instance_values
            /\ \A v \in Range(df_meta.column_names) :
                  RaisesInChunk(v, chunk_start, chunk_end) =>
                      Filter(LAMBDA node : node.isStoredIn \in
                                 RowIds("dataPoint", v, Len(df)), Appended)
                        = ElementByElement(v, chunk_start, chunk_end)

\* C17: when the vectorized evaluation of a variable raises in a chunk,
\* before the first row or after some rows were emitted, the run does not
\* abort and falls back to element-by-element evaluation for that chunk only:
\* the InstanceValue nodes of that chunk and variable are exactly those of
\* element-by-element evaluation, one per row and none lost, and the nodes of
\* the other chunks are unaffected.
C17_Fallback == [][FallbackStep]_vars

-----------------------------------------------------------------------------
ComponentTypes ==
    IdentifierTypes \cup MeasureTypes \cup
    {"AttributeComponent", "ContextualComponent", "SyntheticIdComponent",
     "VariableValueComponent", "VariableDescriptorComponent"}

\* C18: the ComponentPosition nodes are numbered by one running 0-based
\* counter in column order: their ids are #componentPosition-0 ..
\* #componentPosition-(n-1) without gaps, "value" is the number, the k-th
\* node indexes the k-th entry of the structure node's
\* has_DataStructureComponent, and every component emitted has exactly one
\* position; for every format.
C18_PositionNumbering ==
    Returned =>
        LET nodes      == json_ld_doc.DDICDIModels
            positions  == NodesOfType(nodes, "ComponentPosition")
            components == StructureNode(json_ld_doc).has_DataStructureComponent
        IN  /\ \A k \in DOMAIN positions :
                  /\ positions[k].id = "#componentPosition-" \o ToString(k - 1)
                  /\ positions[k].value = k - 1
            /\ Len(positions) = Len(components)
            /\ \A k \in DOMAIN positions :
                  k \in DOMAIN components /\ positions[k].indexes = components[k]
            /\ \A i \in DOMAIN nodes :
                  nodes[i].type \in ComponentTypes =>
                      Cardinality({k \in DOMAIN positions :
                                      positions[k].indexes = nodes[i].id}) = 1

-----------------------------------------------------------------------------
\* The columns in none of identifier_vars, attribute_vars and measure_vars
ColumnsWithoutRole ==
    {v \in Range(df_meta.column_names) :
        /\ v \notin Range(df_meta.identifier_vars)
        /\ v \notin Range(df_meta.attribute_vars)
        /\ v \notin Range(df_meta.measure_vars)}

\* C19: in a format that is not JSON a column in none of identifier_vars,
\* attribute_vars and measure_vars gets the measure role: a MeasureComponent
\* (QualifiedMeasure for NetCDF) node is emitted for it, the structure node
\* references it and a ComponentPosition indexes it, whatever roles the other
\* columns have.
C19_DefaultMeasure ==
    (Returned /\ ~Json) =>
        LET nodes  == json_ld_doc.DDICDIModels
            m_type == IF NetCDF THEN "QualifiedMeasure" ELSE "MeasureComponent"
            m_id(v) == IF NetCDF THEN "#qualifiedMeasure-" \o v
                                 ELSE "#measureComponent-" \o v
        IN  \A v \in ColumnsWithoutRole :
                /\ \E i \in DOMAIN nodes :
                      nodes[i].id = m_id(v) /\ nodes[i].type = m_type
                /\ m_id(v) \in Range(StructureNode(json_ld_doc).has_DataStructureComponent)
                /\ \E i \in DOMAIN nodes :
                      /\ nodes[i].type = "ComponentPosition"
                      /\ nodes[i].indexes = m_id(v)

\* C19, the node only: the measure node of a column without a role is emitted
C19_NodeEmitted ==
    (Returned /\ ~Json) =>
        \A v \in ColumnsWithoutRole :
            \E i \in DOMAIN json_ld_doc.DDICDIModels :
                /\ json_ld_doc.DDICDIModels[i].type \in MeasureTypes
                /\ json_ld_doc.DDICDIModels[i].id \in
                      {"#qualifiedMeasure-" \o v, "#measureComponent-" \o v}

-----------------------------------------------------------------------------
\* The missing values of a variable, as df_meta gives them: its ranges, or
\* its user values as ranges of one value
MissingOf(variable) ==
    IF HasKey(df_meta.missing_ranges, variable)
    THEN Get(df_meta.missing_ranges, variable)
    ELSE IF HasKey(df_meta.missing_user_values, variable)
    THEN Map(LAMBDA val : [lo |-> val, hi |-> val],
             Get(df_meta.missing_user_values, variable))
    ELSE <<>>

\* The missing values of the variable are discrete strings
DiscreteStrings(variable) ==
    /\ MissingOf(variable) # <<>>
    /\ \A i \in DOMAIN MissingOf(variable) :
          /\ MissingOf(variable)[i].lo.k = "str"
          /\ MissingOf(variable)[i].hi = MissingOf(variable)[i].lo

\* C20: for a variable whose missing ranges or missing user values are
\* discrete strings, an InstanceValue takes its value from the sentinel value
\* domain exactly when the string form of its cell equals one of those
\* strings, and from the substantive value domain otherwise.
C20_DiscreteStrings ==
    Returned =>
        \A v \in Range(df_meta.column_names) :
            DiscreteStrings(v) =>
                \A r \in DOMAIN df_limited : \A i \in DOMAIN json_ld_doc.DDICDIModels :
                    LET node == json_ld_doc.DDICDIModels[i]
                    IN  node.id = "#instanceValue-" \o ToString(r - 1) \o "-" \o v =>
                            node.hasValueFrom_ValueDomain =
                                IF \E k \in DOMAIN MissingOf(v) :
                                       str(df_limited[r][v]) = MissingOf(v)[k].lo.s
                                THEN "#sentinelValueDomain-" \o v
                                ELSE "#substantiveValueDomain-" \o v

-----------------------------------------------------------------------------
\* The variable has an entry in missing_ranges or in missing_user_values
HasMissing(v) ==
    \/ \E i \in DOMAIN df_meta.missing_ranges : df_meta.missing_ranges[i].key = v
    \/ \E i \in DOMAIN df_meta.missing_user_values : df_meta.missing_user_values[i].key = v

NodesWithId(nodes, id) == Filter(LAMBDA node : node.id = id, nodes)

\* C21: every variable with an entry in missing_ranges or in
\* missing_user_values, whatever the other variables have, gets a
\* SentinelValueDomain node and a sentinel ValueAndConceptDescription node,
\* and its InstanceVariable carries takesSentinelValuesFrom pointing to that
\* domain; a variable with neither gets none of them.
C21_SentinelDomains ==
    Returned =>
        \A v \in Range(df_meta.column_names) :
            LET nodes        == AllNodes(json_ld_doc)
                domains      == NodesWithId(nodes, "#sentinelValueDomain-" \o v)
                descriptions == NodesWithId(nodes, "#sentinelValueAndConceptDescription-" \o v)
                variable     == NodesWithId(nodes, "#instanceVariable-" \o v)
            IN  /\ Len(variable) = 1
                /\ IF HasMissing(v)
                   THEN /\ Len(domains) = 1
                        /\ domains[1].type = "SentinelValueDomain"
                        /\ Len(descriptions) = 1
                        /\ descriptions[1].type = "ValueAndConceptDescription"
                        /\ "takesSentinelValuesFrom" \in DOMAIN variable[1]
                        /\ variable[1]["takesSentinelValuesFrom"] = "#sentinelValueDomain-" \o v
                   ELSE /\ domains = <<>>
                        /\ descriptions = <<>>
                        /\ "takesSentinelValuesFrom" \notin DOMAIN variable[1]

-----------------------------------------------------------------------------
\* The missing ranges and the missing codes of a variable
RangesOf(v) == GetOr(df_meta.missing_ranges, v, <<>>)
CodesOf(v)  == GetOr(df_meta.missing_user_values, v, <<>>)

\* A value-label key is sentinel for v: it lies in one of v's missing ranges,
\* bounds included, or equals one of v's missing codes
SentinelKey(v, key) ==
    \/ \E i \in DOMAIN RangesOf(v) :
          /\ PyComparable(RangesOf(v)[i].lo, key) /\ PyLe(RangesOf(v)[i].lo, key)
          /\ PyComparable(key, RangesOf(v)[i].hi) /\ PyLe(key, RangesOf(v)[i].hi)
    \/ \E i \in DOMAIN CodesOf(v) : PyEq(CodesOf(v)[i], key)

\* The top concepts of a scheme; none when the scheme is not emitted
TopConceptsOf(doc, id) ==
    UNION {Range(AllNodes(doc)[i].hasTopConcept) :
              i \in {j \in DOMAIN AllNodes(doc) : AllNodes(doc)[j].id = id}}

\* C22: for every value-labelled variable v the top concepts of
\* #substantiveConceptScheme-v are exactly the value-label keys that are not
\* sentinel for v, and those of #sentinelConceptScheme-v exactly the keys
\* that are sentinel for v: every key is a top concept of exactly one of the
\* two schemes.
C22_TopConcepts ==
    Returned =>
        \A i \in DOMAIN df_meta.variable_value_labels :
            LET v    == df_meta.variable_value_labels[i].key
                keys == Range(Keys(df_meta.variable_value_labels[i].val))
                substantive == TopConceptsOf(json_ld_doc, "#substantiveConceptScheme-" \o v)
                sentinel    == TopConceptsOf(json_ld_doc, "#sentinelConceptScheme-" \o v)
            IN  /\ substantive =
                      {"#" \o v \o "-concept-" \o str(key) : key \in {k \in keys : ~SentinelKey(v, k)}}
                /\ sentinel =
                      {"#" \o v \o "-concept-" \o str(key) : key \in {k \in keys : SentinelKey(v, k)}}
                /\ substantive \cap sentinel = {}

-----------------------------------------------------------------------------
\* The classification level of a measure tag; "" stands for an absent tag
LevelOf(tag) ==
    IF tag \in {"scale", "continuous"} THEN "Continuous"
    ELSE IF tag = "ordinal" THEN "Ordinal"
    ELSE "Nominal"

MeasureTagOf(v) == GetOr(df_meta.variable_measure, v, "")

\* The metadata with the measure tag nominal for every variable
WithNominalTags ==
    [df_meta EXCEPT !.variable_measure =
        Map(LAMBDA v : [key |-> v, val |-> "nominal"], df_meta.column_names)]

\* C23: there is one substantive ValueAndConceptDescription for every
\* variable, with classificationLevel Continuous for the measure tags scale
\* and continuous, Ordinal for ordinal, Nominal for nominal and for any other
\* or absent tag; the call never fails because of a measure tag.
C23_ClassificationLevel ==
    /\ pc = "raised" => ComponentsRaise(WithNominalTags)
    /\ Returned =>
          \A v \in Range(df_meta.column_names) :
              LET descriptions ==
                      NodesWithId(AllNodes(json_ld_doc),
                                  "#substantiveValueAndConceptDescription-" \o v)
              IN  /\ Len(descriptions) = 1
                  /\ descriptions[1].type = "ValueAndConceptDescription"
                  /\ descriptions[1].classificationLevel = LevelOf(MeasureTagOf(v))

-----------------------------------------------------------------------------
\* C24: there is exactly one ValueMapping per variable, in column order,
\* whose formats list is #dataPoint-0-v, #dataPoint-1-v, ... in ascending row
\* order, as long as the number of rows processed (not the total row count
\* when truncated), and each listed id is the id of an emitted DataPoint.
C24_ValueMappings ==
    Returned =>
        LET nodes    == AllNodes(json_ld_doc)
            mappings == NodesOfType(nodes, "ValueMapping")
            points   == Ids(NodesOfType(nodes, "DataPoint"))
        IN  /\ Len(mappings) = Len(df_meta.column_names)
            /\ \A i \in DOMAIN df_meta.column_names :
                  LET v == df_meta.column_names[i]
                  IN  /\ mappings[i].id = "#valueMapping-" \o v
                      /\ Len(mappings[i].formats) = RowsProcessed
                      /\ \A j \in DOMAIN mappings[i].formats :
                            /\ mappings[i].formats[j] =
                                  "#dataPoint-" \o ToString(j - 1) \o "-" \o v
                            /\ mappings[i].formats[j] \in points

\* a ten-row dataset truncated to five rows: five formats per variable
C24_Witness ==
    /\ Returned /\ ~process_all_rows
    /\ Len(df) = 10 /\ max_rows = 5
    /\ \E i \in DOMAIN json_ld_doc.DDICDIModels :
          /\ json_ld_doc.DDICDIModels[i].type = "ValueMapping"
          /\ json_ld_doc.DDICDIModels[i].id = "#valueMapping-age"
          /\ Len(json_ld_doc.DDICDIModels[i].formats) = 5

-----------------------------------------------------------------------------
\* The names a role set or a label map of df_meta refers to
RoleNamesUsed ==
    Range(df_meta.identifier_vars) \cup Range(df_meta.measure_vars)
    \cup Range(df_meta.attribute_vars) \cup Range(df_meta.contextual_vars)
    \cup Range(df_meta.synthetic_id_vars) \cup Range(df_meta.variable_value_vars)

LabelMapNames ==
    Range(Keys(df_meta.variable_value_labels)) \cup Range(Keys(df_meta.missing_ranges))
    \cup Range(Keys(df_meta.missing_user_values))

StrayRoleNames  == RoleNamesUsed \ Range(df_meta.column_names)
StrayLabelNames == LabelMapNames \ Range(df_meta.column_names)

\* df_meta without the names that are no column
WithoutStray ==
    LET column(v)   == InList(v, df_meta.column_names)
        items(dict) == Filter(LAMBDA item : column(item.key), dict)
    IN  [df_meta EXCEPT
            !.identifier_vars       = Filter(column, @),
            !.measure_vars          = Filter(column, @),
            !.attribute_vars        = Filter(column, @),
            !.contextual_vars       = Filter(column, @),
            !.synthetic_id_vars     = Filter(column, @),
            !.variable_value_vars   = Filter(column, @),
            !.variable_value_labels = items(@),
            !.missing_ranges        = items(@),
            !.missing_user_values   = items(@)]

\* The ids and the references of the document that contain the name
DerivedFrom(doc, name) ==
    {id \in Ids(AllNodes(doc))
           \cup UNION {References(AllNodes(doc)[i]) : i \in DOMAIN AllNodes(doc)} :
        Contains(id, name)}

\* C25: a name that is in a role set or in a label map but not in
\* column_names is skipped: generation does not fail because of it, and no
\* node and no reference derived from the name is emitted.
C25_StrayNamesSkipped ==
    /\ pc = "raised" => ComponentsRaise(WithoutStray)
    /\ Returned =>
          \A name \in StrayRoleNames \cup StrayLabelNames :
              DerivedFrom(json_ld_doc, name) = {}

-----------------------------------------------------------------------------
\* C26 as stated: when a role set names a variable that is not in
\* column_names the call fails before any node is generated and returns no
\* document.
C26_AsStated ==
    StrayRoleNames # {} => pc \in {"start", "raised"} /\ all_data_points = <<>>

\* The prefixes of the ids that are derived from a role
RolePrefixes ==
    {"identifierComponent", "dimensionComponent", "measureComponent", "qualifiedMeasure",
     "attributeComponent", "contextualComponent", "syntheticIdComponent",
     "variableValueComponent", "variableDescriptorComponent", "primaryKeyComponent"}

\* df_meta with empty role sets
WithoutRoles ==
    [df_meta EXCEPT !.identifier_vars = <<>>, !.measure_vars = <<>>,
                    !.attribute_vars = <<>>, !.contextual_vars = <<>>,
                    !.synthetic_id_vars = <<>>, !.variable_value_vars = <<>>]

\* C26, amended: when a role set names a variable that is not in
\* column_names the call does not fail because of it (nothing validates the
\* role sets before the nodes are generated); the name is skipped, and the
\* returned document has no component, primary key component or reference
\* with an id derived from it.
C26_StrayRoleSkipped ==
    StrayRoleNames # {} =>
        /\ pc = "raised" => ComponentsRaise(WithoutRoles)
        /\ Returned =>
              \A name \in StrayRoleNames : \A prefix \in RolePrefixes :
                  "#" \o prefix \o "-" \o name \notin
                      (Ids(AllNodes(json_ld_doc))
                       \cup UNION {References(AllNodes(json_ld_doc)[i]) :
                                      i \in DOMAIN AllNodes(json_ld_doc)})

\* a document was returned although identifier_vars names a variable that is
\* no column
C26_Witness ==
    /\ Returned
    /\ "ghost" \in StrayRoleNames
    /\ df_meta.identifier_vars = <<"id", "ghost">>
    /\ \E i \in DOMAIN json_ld_doc.DDICDIModels :
          json_ld_doc.DDICDIModels[i].id = "#primaryKeyComponent-id"


-----------------------------------------------------------------------------
(* C27: generate_complete_json_ld leaves its inputs unchanged: no step of a *)
(* call, on the direct path or in the chunk loop (whose numeric conversion  *)
(* of the object columns works on a copy of the chunk), changes the         *)
(* caller's dataframe or any field of the metadata object.                  *)
C27_InputsUnchanged == [][df' = df /\ df_meta' = df_meta]_vars

\* A chunked call has returned, and one of its chunks converted numeric text
\* of an object column, while the caller's frame still holds the text
C27_Witness ==
    /\ Returned
    /\ Chunked
    /\ \E idx \in 0..(total_chunks(df, chunk_size) - 1) :
          LET chunk_start == idx * chunk_size
              chunk_end   == Min(chunk_start + chunk_size, Len(df))
          IN  ChunkColumn(df, "age", chunk_start, chunk_end)
                  # Column(iloc(df, chunk_start, chunk_end), "age")


-----------------------------------------------------------------------------
\* The two reference lists of a structure node have one length n, and the
\* positions are #componentPosition-0 .. #componentPosition-(n-1) in order
PositionsMatchComponents(node) ==
    /\ Len(node.has_ComponentPosition) = Len(node.has_DataStructureComponent)
    /\ \A k \in DOMAIN node.has_ComponentPosition :
          node.has_ComponentPosition[k] = "#componentPosition-" \o ToString(k - 1)

\* C28: in the structure node has_DataStructureComponent and
\* has_ComponentPosition always have the same length n, and
\* has_ComponentPosition is #componentPosition-0 .. #componentPosition-(n-1)
\* in ascending order, for every format and every role assignment: the node
\* the generator builds for the metadata, and the node of a returned document.
C28_StructurePositions ==
    /\ PositionsMatchComponents(generate_DimensionalDataStructure(df_meta)[1])
    /\ Returned => PositionsMatchComponents(StructureNode(json_ld_doc))

\* The components of the structure node that are derived from the variable
ComponentsOfVariable(node, v) ==
    {k \in DOMAIN node.has_DataStructureComponent :
        \E prefix \in RolePrefixes :
            node.has_DataStructureComponent[k] = "#" \o prefix \o "-" \o v}

\* A key-value document was returned for a variable with several roles
\* (identifier, attribute, contextual, synthetic id and variable value at
\* once) and a column that is only a measure: the structure node lists
\* several components of the first and as many positions as components
C28_Witness ==
    /\ Returned
    /\ Json
    /\ \E v \in Range(df_meta.column_names) :
          /\ v \in Range(df_meta.identifier_vars) \cap Range(df_meta.attribute_vars)
          /\ v \in Range(df_meta.contextual_vars) \cap Range(df_meta.synthetic_id_vars)
          /\ v \in Range(df_meta.variable_value_vars)
          /\ Cardinality(ComponentsOfVariable(StructureNode(json_ld_doc), v)) >= 3
    /\ \E v \in Range(df_meta.column_names) :
          /\ v \in Range(df_meta.measure_vars)
          /\ v \notin Range(df_meta.variable_value_vars)
          /\ v \notin Range(df_meta.identifier_vars)
    /\ Len(StructureNode(json_ld_doc).has_ComponentPosition) >= 3

-----------------------------------------------------------------------------
\* A bound the range branch of lines 554-559 takes as numeric: an int, a
\* float, or a str of digits
NumericBound(x) == IsNumber(x) \/ (x.k \in {"str", "numstr"} /\ isnumeric(x.s))

\* One bound of the range is numeric and the other is not
MixedRange(r) == NumericBound(r.lo) # NumericBound(r.hi)

\* The variables whose missing ranges all have such a pair of bounds
MixedRangeVariables ==
    {df_meta.missing_ranges[i].key : i \in
        {j \in DOMAIN df_meta.missing_ranges :
            /\ df_meta.missing_ranges[j].val # <<>>
            /\ \A k \in DOMAIN df_meta.missing_ranges[j].val :
                  /\ IsRangeDict(df_meta.missing_ranges[j].val[k])
                  /\ MixedRange(df_meta.missing_ranges[j].val[k])}}

\* The top concepts of the scheme of v among the nodes of a generator
SchemeConcepts(nodes, v) ==
    UNION {Range(nodes[i].hasTopConcept) :
              i \in {j \in DOMAIN nodes : nodes[j].id = "#substantiveConceptScheme-" \o v}}

\* C29: a missing range whose lo/hi pair has one numeric and one non-numeric
\* bound matches nothing: every value-label key of its variable is a top
\* concept of the substantive concept scheme, in the list the scheme
\* generator builds and in a returned document, and no InstanceValue of the
\* variable takes its value from the sentinel value domain.
C29_MixedRange ==
    /\ \A i \in DOMAIN df_meta.variable_value_labels :
          LET v    == df_meta.variable_value_labels[i].key
              all  == {ConceptId(v, key) :
                          key \in Range(Keys(df_meta.variable_value_labels[i].val))}
          IN  v \in MixedRangeVariables =>
                  /\ SchemeConcepts(generate_SubstantiveConceptScheme(df_meta), v) = all
                  /\ Returned => TopConceptsOf(json_ld_doc, "#substantiveConceptScheme-" \o v) = all
    /\ Returned =>
          \A v \in MixedRangeVariables, i \in DOMAIN json_ld_doc.DDICDIModels :
              LET node == json_ld_doc.DDICDIModels[i]
              IN  (\E r \in DOMAIN df : node.id = RowId("instanceValue", r - 1, v)) =>
                      node.hasValueFrom_ValueDomain # SentinelRef(v)


-----------------------------------------------------------------------------
\* C30: MemoryManager.optimize_chunk_size returns, for every non-empty
\* dataframe and every positive available_memory_mb, a chunk size that is at
\* least 50 rows and not more than the number of rows of the dataset, and 100
\* for an empty dataframe: every call returns, and returns a positive chunk
\* size within these bounds.
C30_ChunkSizeBounds ==
    /\ pc # "raised"
    /\ pc = "optimized" =>
          /\ chunk_size > 0
          /\ Len(df) = 0 => chunk_size = 100
          /\ Len(df) > 0 => (chunk_size >= 50 /\ chunk_size <= Len(df))

====
